---- MODULE Spec2Model ----
(***************************************************************************)
(* Chunked cleanse-and-aggregate sales pipeline:                           *)
(*   ChunkedCSVReader -> DataCleaner -> DataAggregator, driven by          *)
(*   DataPipeline.run().                                                   *)
(*                                                                         *)
(* Representation.  A DataFrame is a sequence of rows (records).  A cell   *)
(* is a tagged value: NaN (missing: NaN/NaT/None), Num(n), Str(chars) or   *)
(* Date(yyyymmdd).  Strings that the code manipulates (region, category,   *)
(* quantity, sale_date) are sequences of one-character strings.  Money is  *)
(* counted in cents, so unit_price 20.00 is Num(2000); the arithmetic is   *)
(* exact (binary floating-point error is not modelled).                    *)
(***************************************************************************)
EXTENDS Integers, Sequences, FiniteSets, TLC

VARIABLES
    file,            \* rows of the input CSV as read_csv delivers them
    chunk_size,      \* DataPipeline.chunk_size
    pos,             \* number of rows the chunk iterator has yielded so far
    pc,              \* position of run() / _process_chunks()
    chunk,           \* loop variable `chunk` of _process_chunks
    cleaned_chunk,   \* loop variable `cleaned_chunk` of _process_chunks
    issues,          \* DataCleaner.quality_issues.issues
    aggregator,      \* the DataAggregator's four accumulators
    absorbed,        \* history: every frame handed to process_chunk, in order
    outputs,         \* reports written by _generate_outputs / _generate_quality_report
    raised           \* the exception that left run(), "none" while there is none

vars == <<file, chunk_size, pos, pc, chunk, cleaned_chunk, issues,
          aggregator, absorbed, outputs, raised>>

----------------------------------------------------------------------------
(* Cells *)

NaN == [t |-> "nan", n |-> 0, s |-> <<>>]

Num(x) == [t |-> "num", n |-> x, s |-> <<>>]

Str(cs) == [t |-> "str", n |-> 0, s |-> cs]

Date(ymd) == [t |-> "date", n |-> ymd, s |-> <<>>]

isna(v) == v.t = "nan"

notna(v) == v.t # "nan"

Range(s) == {s[i] : i \in DOMAIN s}

\* The rows of s at the positions in I, in their original order.
SubSeqAt(s, I) ==
    LET idx(k) == CHOOSE i \in I : Cardinality({j \in I : j < i}) = k - 1
    IN  [k \in 1..Cardinality(I) |-> s[idx(k)]]

RECURSIVE SumSeq(_)
SumSeq(s) == IF s = <<>> THEN 0 ELSE Head(s) + SumSeq(Tail(s))

RECURSIVE Concat(_)
Concat(frames) == IF frames = <<>> THEN <<>> ELSE Head(frames) \o Concat(Tail(frames))

----------------------------------------------------------------------------
(* src/config/settings.py *)

MIN_QUANTITY == 0
MAX_QUANTITY == 10000
MIN_PRICE == 1            \* 0.01, in cents
MAX_PRICE == 10000000     \* 100000, in cents
MIN_DISCOUNT == 0
MAX_DISCOUNT == 100

REGION_MAPPING ==
    (<<"n", "o", "r", "t", "h", " ", "a", "m", "e", "r", "i", "c", "a">> :> <<"N", "o", "r", "t", "h", " ", "A", "m", "e", "r", "i", "c", "a">>)
    @@ (<<"n", ".", " ", "a", "m", "e", "r", "i", "c", "a">> :> <<"N", "o", "r", "t", "h", " ", "A", "m", "e", "r", "i", "c", "a">>)
    @@ (<<"n", " ", "a", "m", "e", "r", "i", "c", "a">> :> <<"N", "o", "r", "t", "h", " ", "A", "m", "e", "r", "i", "c", "a">>)
    @@ (<<"n", "o", "r", "t", "h", "a", "m", "e", "r", "i", "c", "a">> :> <<"N", "o", "r", "t", "h", " ", "A", "m", "e", "r", "i", "c", "a">>)
    @@ (<<"n", "a">> :> <<"N", "o", "r", "t", "h", " ", "A", "m", "e", "r", "i", "c", "a">>)
    @@ (<<"e", "u", "r", "o", "p", "e">> :> <<"E", "u", "r", "o", "p", "e">>)
    @@ (<<"e", "u">> :> <<"E", "u", "r", "o", "p", "e">>)
    @@ (<<"e", "u", "r", "o", "p", "a">> :> <<"E", "u", "r", "o", "p", "e">>)
    @@ (<<"a", "s", "i", "a">> :> <<"A", "s", "i", "a">>)
    @@ (<<"a", "s", "i", "a", "n">> :> <<"A", "s", "i", "a">>)
    @@ (<<"s", "o", "u", "t", "h", " ", "a", "m", "e", "r", "i", "c", "a">> :> <<"S", "o", "u", "t", "h", " ", "A", "m", "e", "r", "i", "c", "a">>)
    @@ (<<"s", ".", " ", "a", "m", "e", "r", "i", "c", "a">> :> <<"S", "o", "u", "t", "h", " ", "A", "m", "e", "r", "i", "c", "a">>)
    @@ (<<"s", " ", "a", "m", "e", "r", "i", "c", "a">> :> <<"S", "o", "u", "t", "h", " ", "A", "m", "e", "r", "i", "c", "a">>)
    @@ (<<"s", "o", "u", "t", "h", "a", "m", "e", "r", "i", "c", "a">> :> <<"S", "o", "u", "t", "h", " ", "A", "m", "e", "r", "i", "c", "a">>)
    @@ (<<"s", "a">> :> <<"S", "o", "u", "t", "h", " ", "A", "m", "e", "r", "i", "c", "a">>)
    @@ (<<"a", "f", "r", "i", "c", "a">> :> <<"A", "f", "r", "i", "c", "a">>)
    @@ (<<"a", "f", "r", "i", "c", "a", "n">> :> <<"A", "f", "r", "i", "c", "a">>)
    @@ (<<"o", "c", "e", "a", "n", "i", "a">> :> <<"O", "c", "e", "a", "n", "i", "a">>)
    @@ (<<"a", "u", "s", "t", "r", "a", "l", "i", "a">> :> <<"O", "c", "e", "a", "n", "i", "a">>)
    @@ (<<"p", "a", "c", "i", "f", "i", "c">> :> <<"O", "c", "e", "a", "n", "i", "a">>)

CATEGORY_MAPPING ==
    (<<"e", "l", "e", "c", "t", "r", "o", "n", "i", "c", "s">> :> <<"E", "l", "e", "c", "t", "r", "o", "n", "i", "c", "s">>)
    @@ (<<"e", "l", "e", "c", "t", "r", "o", "n", "i", "c">> :> <<"E", "l", "e", "c", "t", "r", "o", "n", "i", "c", "s">>)
    @@ (<<"e", "l", "e", "c", "t", "r", "n", "i", "c", "s">> :> <<"E", "l", "e", "c", "t", "r", "o", "n", "i", "c", "s">>)
    @@ (<<"e", "l", "c", "t", "r", "o", "n", "i", "c", "s">> :> <<"E", "l", "e", "c", "t", "r", "o", "n", "i", "c", "s">>)
    @@ (<<"c", "l", "o", "t", "h", "i", "n", "g">> :> <<"C", "l", "o", "t", "h", "i", "n", "g">>)
    @@ (<<"c", "l", "o", "t", "h", "e", "s">> :> <<"C", "l", "o", "t", "h", "i", "n", "g">>)
    @@ (<<"a", "p", "p", "a", "r", "e", "l">> :> <<"C", "l", "o", "t", "h", "i", "n", "g">>)
    @@ (<<"f", "a", "s", "h", "i", "o", "n">> :> <<"C", "l", "o", "t", "h", "i", "n", "g">>)
    @@ (<<"h", "o", "m", "e", " ", "&", " ", "g", "a", "r", "d", "e", "n">> :> <<"H", "o", "m", "e", " ", "&", " ", "G", "a", "r", "d", "e", "n">>)
    @@ (<<"h", "o", "m", "e", " ", "a", "n", "d", " ", "g", "a", "r", "d", "e", "n">> :> <<"H", "o", "m", "e", " ", "&", " ", "G", "a", "r", "d", "e", "n">>)
    @@ (<<"h", "o", "m", "e">> :> <<"H", "o", "m", "e", " ", "&", " ", "G", "a", "r", "d", "e", "n">>)
    @@ (<<"g", "a", "r", "d", "e", "n">> :> <<"H", "o", "m", "e", " ", "&", " ", "G", "a", "r", "d", "e", "n">>)
    @@ (<<"s", "p", "o", "r", "t", "s">> :> <<"S", "p", "o", "r", "t", "s">>)
    @@ (<<"s", "p", "o", "r", "t">> :> <<"S", "p", "o", "r", "t", "s">>)
    @@ (<<"s", "p", "o", "r", "t", "i", "n", "g", " ", "g", "o", "o", "d", "s">> :> <<"S", "p", "o", "r", "t", "s">>)
    @@ (<<"b", "o", "o", "k", "s">> :> <<"B", "o", "o", "k", "s">>)
    @@ (<<"b", "o", "o", "k">> :> <<"B", "o", "o", "k", "s">>)
    @@ (<<"t", "o", "y", "s">> :> <<"T", "o", "y", "s">>)
    @@ (<<"t", "o", "y">> :> <<"T", "o", "y", "s">>)
    @@ (<<"t", "o", "y", "s", " ", "&", " ", "g", "a", "m", "e", "s">> :> <<"T", "o", "y", "s">>)
    @@ (<<"f", "o", "o", "d">> :> <<"F", "o", "o", "d", " ", "&", " ", "B", "e", "v", "e", "r", "a", "g", "e">>)
    @@ (<<"b", "e", "v", "e", "r", "a", "g", "e">> :> <<"F", "o", "o", "d", " ", "&", " ", "B", "e", "v", "e", "r", "a", "g", "e">>)
    @@ (<<"f", "o", "o", "d", " ", "&", " ", "b", "e", "v", "e", "r", "a", "g", "e">> :> <<"F", "o", "o", "d", " ", "&", " ", "B", "e", "v", "e", "r", "a", "g", "e">>)

\* Format directives are "Y", "m", "d", "y"; every other element is a literal.
DATE_FORMATS == <<
    <<"Y", "-", "m", "-", "d">>,
    <<"m", "/", "d", "/", "Y">>,
    <<"d", "/", "m", "/", "Y">>,
    <<"Y", "/", "m", "/", "d">>,
    <<"m", "-", "d", "-", "Y">>,
    <<"d", "-", "m", "-", "Y">>,
    <<"Y", "m", "d">>,
    <<"m", "/", "d", "/", "y">>,
    <<"d", "/", "m", "/", "y">> >>

----------------------------------------------------------------------------
(* String primitives used by the cleaner *)

Digits == <<"0", "1", "2", "3", "4", "5", "6", "7", "8", "9">>

IsDigit(c) == c \in Range(Digits)

DigitVal(c) == (CHOOSE i \in 1..10 : Digits[i] = c) - 1

RECURSIVE DigitsVal(_)
DigitsVal(cs) ==
    IF cs = <<>> THEN 0
    ELSE 10 * DigitsVal(SubSeq(cs, 1, Len(cs) - 1)) + DigitVal(cs[Len(cs)])

Upper == <<"A", "B", "C", "D", "E", "F", "G", "H", "I", "J", "K", "L", "M",
           "N", "O", "P", "Q", "R", "S", "T", "U", "V", "W", "X", "Y", "Z">>

Lower == <<"a", "b", "c", "d", "e", "f", "g", "h", "i", "j", "k", "l", "m",
           "n", "o", "p", "q", "r", "s", "t", "u", "v", "w", "x", "y", "z">>

\* str.lower()
str_lower(cs) ==
    [i \in DOMAIN cs |->
        IF cs[i] \in Range(Upper)
        THEN Lower[CHOOSE k \in 1..26 : Upper[k] = cs[i]]
        ELSE cs[i]]

Whitespace == {" ", "\t"}

\* str.strip()
str_strip(cs) ==
    LET solid == {i \in DOMAIN cs : cs[i] \notin Whitespace}
    IN  IF solid = {} THEN <<>>
        ELSE LET lo == CHOOSE i \in solid : \A j \in solid : i <= j
                 hi == CHOOSE i \in solid : \A j \in solid : j <= i
             IN  SubSeq(cs, lo, hi)

\* Series.str.lower().str.strip(): missing stays missing
lower_strip(v) == IF v.t = "str" THEN Str(str_strip(str_lower(v.s))) ELSE NaN

\* Series.map(mapping): a miss gives NaN
map_lookup(v, mapping) ==
    IF v.t = "str" /\ v.s \in DOMAIN mapping THEN Str(mapping[v.s]) ELSE NaN

\* pd.to_numeric(errors='coerce') on one cell: an optionally signed run of
\* digits is its value, a number is itself, anything else is NaN.
to_numeric(v) ==
    IF v.t = "num" THEN v
    ELSE IF v.t # "str" THEN NaN
    ELSE LET neg  == v.s # <<>> /\ v.s[1] = "-"
             body == IF neg THEN Tail(v.s) ELSE v.s
         IN  IF body # <<>> /\ \A i \in DOMAIN body : IsDigit(body[i])
             THEN Num(IF neg THEN 0 - DigitsVal(body) ELSE DigitsVal(body))
             ELSE NaN

----------------------------------------------------------------------------
(* Date parsing: pd.to_datetime(series, format=f, errors='coerce') *)

NoMatch == [ok |-> FALSE, y |-> 0, m |-> 0, d |-> 0]

\* Regex matching of a strptime format against the whole string: %Y is four
\* digits, %y two digits, %m and %d prefer their two-digit alternative and
\* fall back to one digit (and, for %d, to a space-padded digit).
RECURSIVE strptime_from(_, _, _, _, _)
strptime_from(s, i, fmt, k, acc) ==
    IF k > Len(fmt) THEN (IF i = Len(s) + 1 THEN acc ELSE NoMatch)
    ELSE
      LET tok == fmt[k]
          digitsAt(w) == /\ i + w - 1 <= Len(s)
                         /\ \A j \in i..(i + w - 1) : IsDigit(s[j])
          val(w) == DigitsVal(SubSeq(s, i, i + w - 1))
          put(v) == IF tok = "m" THEN [acc EXCEPT !.m = v] ELSE [acc EXCEPT !.d = v]
      IN  CASE tok = "Y" ->
                 IF digitsAt(4)
                 THEN strptime_from(s, i + 4, fmt, k + 1, [acc EXCEPT !.y = val(4)])
                 ELSE NoMatch
            [] tok = "y" ->
                 IF digitsAt(2)
                 THEN strptime_from(s, i + 2, fmt, k + 1,
                        [acc EXCEPT !.y = IF val(2) <= 68 THEN 2000 + val(2)
                                                          ELSE 1900 + val(2)])
                 ELSE NoMatch
            [] tok \in {"m", "d"} ->
                 LET hi  == IF tok = "m" THEN 12 ELSE 31
                     two == IF digitsAt(2) /\ val(2) \in 1..hi
                            THEN strptime_from(s, i + 2, fmt, k + 1, put(val(2)))
                            ELSE NoMatch
                     one == IF digitsAt(1) /\ val(1) \in 1..9
                            THEN strptime_from(s, i + 1, fmt, k + 1, put(val(1)))
                            ELSE NoMatch
                     pad == IF /\ tok = "d"
                               /\ i + 1 <= Len(s)
                               /\ s[i] = " "
                               /\ IsDigit(s[i + 1])
                               /\ DigitVal(s[i + 1]) \in 1..9
                            THEN strptime_from(s, i + 2, fmt, k + 1, put(DigitVal(s[i + 1])))
                            ELSE NoMatch
                 IN  IF two.ok THEN two ELSE IF one.ok THEN one ELSE pad
            [] OTHER ->
                 IF i <= Len(s) /\ s[i] = tok
                 THEN strptime_from(s, i + 1, fmt, k + 1, acc)
                 ELSE NoMatch

IsLeap(y) == (y % 4 = 0 /\ y % 100 # 0) \/ y % 400 = 0

DaysInMonth(y, m) ==
    IF m = 2 THEN (IF IsLeap(y) THEN 29 ELSE 28)
    ELSE IF m \in {4, 6, 9, 11} THEN 30 ELSE 31

\* One cell: a datetime is returned as it is, a string is parsed with the one
\* format, and a string that does not match, names no calendar day or lies
\* outside the Timestamp range becomes NaT.
to_datetime(v, fmt) ==
    IF v.t = "date" THEN v
    ELSE IF v.t # "str" THEN NaN
    ELSE LET r == strptime_from(v.s, 1, fmt, 1, [ok |-> TRUE, y |-> 0, m |-> 0, d |-> 0])
         IN  IF /\ r.ok
                /\ r.y > 1677 /\ r.y < 2262
                /\ r.d <= DaysInMonth(r.y, r.m)
             THEN Date(r.y * 10000 + r.m * 100 + r.d)
             ELSE NaN

----------------------------------------------------------------------------
(* src/cleansing/data_cleaner.py *)

IssueTypes == {"duplicate_orders", "invalid_quantity", "invalid_price",
               "invalid_discount", "invalid_date", "missing_values",
               "normalized_regions", "normalized_categories",
               "total_rows_processed", "total_rows_cleaned"}

\* DataQualityIssues.__init__
NewIssues == [k \in IssueTypes |-> 0]

\* add_issue with `=` in place of `+=`: the counter is overwritten
add_issue_overwriting(iss, issue_type, count) ==
    IF issue_type \in DOMAIN iss
    THEN [iss EXCEPT ![issue_type] = count]
    ELSE iss

\* DataQualityIssues.add_issue
add_issue(iss, issue_type, count) ==
    IF issue_type \in DOMAIN iss
    THEN [iss EXCEPT ![issue_type] = @ + count]
    ELSE iss

\* `if count > 0: add_issue(...)`
add_if_any(iss, issue_type, count) ==
    IF count > 0 THEN add_issue(iss, issue_type, count) ELSE iss

\* _remove_duplicates with keep='last'
_remove_duplicates_keep_last(st) ==
    LET df       == st.df
        last     == {i \in DOMAIN df :
                        \A j \in (i + 1)..Len(df) : df[j].order_id # df[i].order_id}
        df_dedup == SubSeqAt(df, last)
        duplicates_removed == Len(df) - Len(df_dedup)
    IN  [df     |-> df_dedup,
         issues |-> add_if_any(st.issues, "duplicate_orders", duplicates_removed)]

\* _remove_duplicates without the drop_duplicates call
_remove_duplicates_skipped(st) == st

\* df.drop_duplicates(subset=['order_id'], keep='first'); missing ids compare equal
_remove_duplicates(st) ==
    LET df       == st.df
        first    == {i \in DOMAIN df : \A j \in 1..(i - 1) : df[j].order_id # df[i].order_id}
        df_dedup == SubSeqAt(df, first)
        duplicates_removed == Len(df) - Len(df_dedup)
    IN  [df     |-> df_dedup,
         issues |-> add_if_any(st.issues, "duplicate_orders", duplicates_removed)]

\* _clean_quantity without the `< MIN_QUANTITY` test
_clean_quantity_no_lower_bound(st) ==
    LET df   == st.df
        q(i) == to_numeric(df[i].quantity)
        invalid_mask == {i \in DOMAIN df :
                            \/ isna(q(i))
                            \/ q(i).n > MAX_QUANTITY}
    IN  [df     |-> [i \in DOMAIN df |->
                        [df[i] EXCEPT !.quantity = IF i \in invalid_mask THEN NaN ELSE q(i)]],
         issues |-> add_if_any(st.issues, "invalid_quantity", Cardinality(invalid_mask))]

_clean_quantity(st) ==
    LET df   == st.df
        q(i) == to_numeric(df[i].quantity)
        invalid_mask == {i \in DOMAIN df :
                            \/ isna(q(i))
                            \/ q(i).n < MIN_QUANTITY
                            \/ q(i).n > MAX_QUANTITY}
    IN  [df     |-> [i \in DOMAIN df |->
                        [df[i] EXCEPT !.quantity = IF i \in invalid_mask THEN NaN ELSE q(i)]],
         issues |-> add_if_any(st.issues, "invalid_quantity", Cardinality(invalid_mask))]

_clean_price(st) ==
    LET df == st.df
        invalid_mask == {i \in DOMAIN df :
                            \/ isna(df[i].unit_price)
                            \/ df[i].unit_price.n < MIN_PRICE
                            \/ df[i].unit_price.n > MAX_PRICE}
    IN  [df     |-> [i \in DOMAIN df |->
                        [df[i] EXCEPT !.unit_price = IF i \in invalid_mask THEN NaN ELSE @]],
         issues |-> add_if_any(st.issues, "invalid_price", Cardinality(invalid_mask))]

\* _clean_discount that removes the rows with an invalid discount (counted in
\* invalid_discount only) instead of setting their discount to 0
_clean_discount_dropping(st) ==
    LET df == st.df
        invalid_mask == {i \in DOMAIN df :
                            \/ isna(df[i].discount_percent)
                            \/ df[i].discount_percent.n < MIN_DISCOUNT
                            \/ df[i].discount_percent.n > MAX_DISCOUNT}
    IN  [df     |-> SubSeqAt(df, DOMAIN df \ invalid_mask),
         issues |-> add_if_any(st.issues, "invalid_discount", Cardinality(invalid_mask))]

\* _clean_discount that blanks an invalid discount instead of setting it to 0
_clean_discount_blanking(st) ==
    LET df == st.df
        invalid_mask == {i \in DOMAIN df :
                            \/ isna(df[i].discount_percent)
                            \/ df[i].discount_percent.n < MIN_DISCOUNT
                            \/ df[i].discount_percent.n > MAX_DISCOUNT}
    IN  [df     |-> [i \in DOMAIN df |->
                        [df[i] EXCEPT !.discount_percent =
                                          IF i \in invalid_mask THEN NaN ELSE @]],
         issues |-> add_if_any(st.issues, "invalid_discount", Cardinality(invalid_mask))]

_clean_discount(st) ==
    LET df == st.df
        invalid_mask == {i \in DOMAIN df :
                            \/ isna(df[i].discount_percent)
                            \/ df[i].discount_percent.n < MIN_DISCOUNT
                            \/ df[i].discount_percent.n > MAX_DISCOUNT}
    IN  [df     |-> [i \in DOMAIN df |->
                        [df[i] EXCEPT !.discount_percent =
                                          IF i \in invalid_mask THEN Num(0) ELSE @]],
         issues |-> add_if_any(st.issues, "invalid_discount", Cardinality(invalid_mask))]

\* The loop with a mask that leaves out `sale_date_parsed.isna()`: every format
\* is tried on every row that has a value, and the last one that parses wins.
RECURSIVE parse_formats_last_match(_, _, _)
parse_formats_last_match(df, parsed, k) ==
    IF k > Len(DATE_FORMATS) THEN parsed
    ELSE parse_formats_last_match(df,
            [i \in DOMAIN df |->
                IF notna(df[i].sale_date) /\ notna(to_datetime(df[i].sale_date, DATE_FORMATS[k]))
                THEN to_datetime(df[i].sale_date, DATE_FORMATS[k])
                ELSE parsed[i]],
            k + 1)

\* The `for date_format in DATE_FORMATS` loop over the sale_date_parsed column.
RECURSIVE parse_formats(_, _, _)
parse_formats(df, parsed, k) ==
    IF k > Len(DATE_FORMATS) THEN parsed
    ELSE LET mask == {i \in DOMAIN df : isna(parsed[i]) /\ notna(df[i].sale_date)}
         IN  IF mask = {} THEN parsed
             ELSE parse_formats(df,
                     [i \in DOMAIN df |->
                         IF i \in mask THEN to_datetime(df[i].sale_date, DATE_FORMATS[k])
                                       ELSE parsed[i]],
                     k + 1)

_clean_dates(st) ==
    LET df == st.df
        sale_date_parsed == parse_formats(df, [i \in DOMAIN df |-> NaN], 1)
        invalid_count == Cardinality({i \in DOMAIN df : isna(sale_date_parsed[i])})
    IN  [df     |-> [i \in DOMAIN df |-> [df[i] EXCEPT !.sale_date = sale_date_parsed[i]]],
         issues |-> add_if_any(st.issues, "invalid_date", invalid_count)]

\* _normalize_region that counts every table hit, changed or not
_normalize_region_counting_hits(st) ==
    LET df == st.df
        region_normalized(i) == map_lookup(lower_strip(df[i].region), REGION_MAPPING)
        normalized_count == Cardinality({i \in DOMAIN df : notna(region_normalized(i))})
    IN  [df     |-> [i \in DOMAIN df |->
                        [df[i] EXCEPT !.region = IF notna(region_normalized(i))
                                                 THEN region_normalized(i) ELSE @]],
         issues |-> add_if_any(st.issues, "normalized_regions", normalized_count)]

_normalize_region(st) ==
    LET df == st.df
        region_normalized(i) == map_lookup(lower_strip(df[i].region), REGION_MAPPING)
        normalized_count == Cardinality({i \in DOMAIN df :
                                /\ notna(region_normalized(i))
                                /\ df[i].region # region_normalized(i)})
    IN  [df     |-> [i \in DOMAIN df |->
                        [df[i] EXCEPT !.region = IF notna(region_normalized(i))
                                                 THEN region_normalized(i) ELSE @]],
         issues |-> add_if_any(st.issues, "normalized_regions", normalized_count)]

\* _normalize_category without the fillna(df['category']): a miss is blanked
_normalize_category_no_fillna(st) ==
    LET df == st.df
        category_normalized(i) == map_lookup(lower_strip(df[i].category), CATEGORY_MAPPING)
        normalized_count == Cardinality({i \in DOMAIN df :
                                /\ notna(category_normalized(i))
                                /\ df[i].category # category_normalized(i)})
    IN  [df     |-> [i \in DOMAIN df |->
                        [df[i] EXCEPT !.category = category_normalized(i)]],
         issues |-> add_if_any(st.issues, "normalized_categories", normalized_count)]

_normalize_category(st) ==
    LET df == st.df
        category_normalized(i) == map_lookup(lower_strip(df[i].category), CATEGORY_MAPPING)
        normalized_count == Cardinality({i \in DOMAIN df :
                                /\ notna(category_normalized(i))
                                /\ df[i].category # category_normalized(i)})
    IN  [df     |-> [i \in DOMAIN df |->
                        [df[i] EXCEPT !.category = IF notna(category_normalized(i))
                                                   THEN category_normalized(i) ELSE @]],
         issues |-> add_if_any(st.issues, "normalized_categories", normalized_count)]

\* round(a / b) to the nearest integer, halves to even (numpy's round)
round_half_even(a, b) ==
    LET f == a \div b
        r == a % b
    IN  IF 2 * r < b THEN f
        ELSE IF 2 * r > b THEN f + 1
        ELSE IF f % 2 = 0 THEN f ELSE f + 1

\* quantity * unit_price * (1 - discount_percent / 100), rounded to cents
revenue_of(row) ==
    IF isna(row.quantity) \/ isna(row.unit_price) \/ isna(row.discount_percent)
    THEN NaN
    ELSE Num(round_half_even(row.quantity.n * row.unit_price.n
                               * (100 - row.discount_percent.n), 100))

\* _calculate_revenue that keeps a revenue supplied in the input
_calculate_revenue_trusting_input(st) ==
    [df     |-> [i \in DOMAIN st.df |->
                    [st.df[i] EXCEPT !.revenue = IF notna(@) THEN @ ELSE revenue_of(st.df[i])]],
     issues |-> st.issues]

_calculate_revenue(st) ==
    [df     |-> [i \in DOMAIN st.df |-> [st.df[i] EXCEPT !.revenue = revenue_of(st.df[i])]],
     issues |-> st.issues]

\* critical_fields without the date
critical_fields_without_date == {"order_id", "quantity", "unit_price"}

critical_fields == {"order_id", "quantity", "unit_price", "sale_date"}

\* df.dropna(subset=critical_fields)
_handle_missing_values(st) ==
    LET df == st.df
        complete == {i \in DOMAIN df : \A f \in critical_fields : notna(df[i][f])}
        df_clean == SubSeqAt(df, complete)
        missing_count == Len(df) - Len(df_clean)
    IN  [df     |-> df_clean,
         issues |-> add_if_any(st.issues, "missing_values", missing_count)]

\* DataCleaner.clean_chunk: the frame returned and the tally afterwards
clean_chunk(df, iss) ==
    LET s0 == [df |-> df, issues |-> add_issue(iss, "total_rows_processed", Len(df))]
        s9 == _handle_missing_values(
              _calculate_revenue(
              _normalize_category(
              _normalize_region(
              _clean_dates(
              _clean_discount(
              _clean_price(
              _clean_quantity(
              _remove_duplicates(s0)))))))))
    IN  [df     |-> s9.df,
         issues |-> add_issue(s9.issues, "total_rows_cleaned", Len(s9.df))]

----------------------------------------------------------------------------
(* Ordering and grouping primitives of pandas used by the aggregator *)

\* Characters in code-point order (the ones the inputs use).
Alphabet == <<" ", "&", "-", ".", "/">> \o Digits \o Upper \o Lower

Ord(c) == CHOOSE i \in DOMAIN Alphabet : Alphabet[i] = c

RECURSIVE lex_less(_, _)
lex_less(a, b) ==
    IF a = <<>> THEN b # <<>>
    ELSE IF b = <<>> THEN FALSE
    ELSE IF a[1] = b[1] THEN lex_less(Tail(a), Tail(b))
    ELSE Ord(a[1]) < Ord(b[1])

\* Stable sort of s, descending by the integer keys k (k[i] is the key of s[i]).
sort_desc(s, k) ==
    LET rank(i) == 1 + Cardinality({j \in DOMAIN s : k[j] > k[i] \/ (k[j] = k[i] /\ j < i)})
    IN  [p \in DOMAIN s |-> s[CHOOSE i \in DOMAIN s : rank(i) = p]]

\* DataFrame.nlargest(n, column): descending by the column, ties in order of
\* appearance (keep='first'), missing values left out, first n rows.
nlargest(n, df, column) ==
    LET present == SubSeqAt(df, {i \in DOMAIN df : notna(df[i][column])})
        sorted  == sort_desc(present, [i \in DOMAIN present |-> present[i][column].n])
    IN  SubSeq(sorted, 1, IF n < Len(sorted) THEN n ELSE Len(sorted))

\* The distinct integers of a set, ascending (groupby sorts its keys).
sorted_ints(S) ==
    [p \in 1..Cardinality(S) |-> CHOOSE x \in S : Cardinality({y \in S : y < x}) = p - 1]

\* The distinct strings of a set, ascending.
sorted_strs(S) ==
    [p \in 1..Cardinality(S) |->
        CHOOSE x \in S : Cardinality({y \in S : lex_less(y, x)}) = p - 1]

\* Exact fractions stand for the float means.
rat_add(a, b) == [num |-> a.num * b.den + b.num * a.den, den |-> a.den * b.den]

RECURSIVE rat_sum(_)
rat_sum(s) == IF s = <<>> THEN [num |-> 0, den |-> 1] ELSE rat_add(Head(s), rat_sum(Tail(s)))

\* mean of a non-empty sequence of fractions
rat_mean(s) == [num |-> rat_sum(s).num, den |-> rat_sum(s).den * Len(s)]

\* Series.round(2) of a fraction, in hundredths
round2(r) == round_half_even(100 * r.num, r.den)

\* sale_date.dt.to_period('M'), as the integer yyyymm
to_period_M(d) == d.n \div 100

Pad(n, w) == [i \in 1..w |-> Digits[((n \div (10 ^ (w - i))) % 10) + 1]]

\* Period.astype(str): "YYYY-MM"
period_str(ym) == Pad(ym \div 100, 4) \o <<"-">> \o Pad(ym % 100, 2)

\* dt.strftime('%Y-%m-%d')
strftime_ymd(d) ==
    Str(Pad(d.n \div 10000, 4) \o <<"-">> \o Pad((d.n \div 100) % 100, 2)
            \o <<"-">> \o Pad(d.n % 100, 2))

\* Ordered dict: a sequence of [key, value] in insertion order.
dict_has(dct, key) == \E i \in DOMAIN dct : dct[i].key = key

dict_get(dct, key, default) ==
    IF dict_has(dct, key) THEN dct[CHOOSE i \in DOMAIN dct : dct[i].key = key].value
    ELSE default

dict_set(dct, key, value) ==
    IF dict_has(dct, key)
    THEN [i \in DOMAIN dct |-> IF dct[i].key = key THEN [key |-> key, value |-> value] ELSE dct[i]]
    ELSE Append(dct, [key |-> key, value |-> value])

----------------------------------------------------------------------------
(* src/transformation/aggregator.py *)

\* nlargest(1000, 'revenue') keeps this many rows of each chunk.  The code's
\* cut is 1000; the model scales it so that chunks longer than the cut occur.
CandidateCut == 2

\* DataAggregator.__init__
NewAggregator ==
    [monthly_sales   |-> <<>>,
     product_revenue |-> <<>>,
     product_units   |-> <<>>,
     all_records     |-> <<>>]

\* df.groupby('year_month').agg(revenue sum, quantity sum, discount_percent mean)
monthly_chunk_of(df) ==
    LET months  == sorted_ints({to_period_M(df[i].sale_date) : i \in DOMAIN df})
        rows(m) == SubSeqAt(df, {i \in DOMAIN df : to_period_M(df[i].sale_date) = m})
    IN  [g \in DOMAIN months |->
            LET grp == rows(months[g])
            IN  [year_month     |-> months[g],
                 total_revenue  |-> SumSeq([i \in DOMAIN grp |-> grp[i].revenue.n]),
                 total_quantity |-> SumSeq([i \in DOMAIN grp |-> grp[i].quantity.n]),
                 avg_discount   |-> rat_mean([i \in DOMAIN grp |->
                                        [num |-> grp[i].discount_percent.n, den |-> 1]])]]

\* df.groupby('product_name').agg(revenue sum, quantity sum); rows without a
\* product name belong to no group
product_chunk_of(df) ==
    LET names   == sorted_strs({df[i].product_name.s :
                                    i \in {j \in DOMAIN df : notna(df[j].product_name)}})
        rows(p) == SubSeqAt(df, {i \in DOMAIN df :
                                    notna(df[i].product_name) /\ df[i].product_name.s = p})
    IN  [g \in DOMAIN names |->
            LET grp == rows(names[g])
            IN  [product_name |-> names[g],
                 revenue      |-> SumSeq([i \in DOMAIN grp |-> grp[i].revenue.n]),
                 quantity     |-> SumSeq([i \in DOMAIN grp |-> grp[i].quantity.n])]]

\* the iterrows loop assigning each product its total of this chunk alone
\* (no .get of the running total)
RECURSIVE merge_products_overwriting(_, _, _)
merge_products_overwriting(agg, product_chunk, k) ==
    IF k > Len(product_chunk) THEN agg
    ELSE LET row     == product_chunk[k]
             product == row.product_name
         IN  merge_products_overwriting(
                [agg EXCEPT
                    !.product_revenue = dict_set(@, product, row.revenue),
                    !.product_units = dict_set(@, product, row.quantity)],
                product_chunk, k + 1)

\* the `for _, row in product_chunk.iterrows()` loop, from row k on
RECURSIVE merge_products(_, _, _)
merge_products(agg, product_chunk, k) ==
    IF k > Len(product_chunk) THEN agg
    ELSE LET row     == product_chunk[k]
             product == row.product_name
         IN  merge_products(
                [agg EXCEPT
                    !.product_revenue =
                        dict_set(@, product, dict_get(@, product, 0) + row.revenue),
                    !.product_units =
                        dict_set(@, product, dict_get(@, product, 0) + row.quantity)],
                product_chunk, k + 1)

\* process_chunk that pools the whole chunk (no nlargest cut)
process_chunk_pooling_all(agg, df) ==
    LET a1 == [agg EXCEPT !.monthly_sales = Append(@, monthly_chunk_of(df))]
        a2 == merge_products(a1, product_chunk_of(df), 1)
    IN  [a2 EXCEPT !.all_records = Append(@, df)]

\* process_chunk keeping the first rows of the chunk (df.head) as candidates
process_chunk_head(agg, df) ==
    LET a1 == [agg EXCEPT !.monthly_sales = Append(@, monthly_chunk_of(df))]
        a2 == merge_products(a1, product_chunk_of(df), 1)
        top_chunk == SubSeq(df, 1, IF Len(df) < CandidateCut THEN Len(df) ELSE CandidateCut)
    IN  [a2 EXCEPT !.all_records = Append(@, top_chunk)]

\* DataAggregator.process_chunk
process_chunk(agg, df) ==
    LET a1 == [agg EXCEPT !.monthly_sales = Append(@, monthly_chunk_of(df))]
        a2 == merge_products(a1, product_chunk_of(df), 1)
        top_chunk == nlargest(CandidateCut, df, "revenue")
    IN  [a2 EXCEPT !.all_records = Append(@, top_chunk)]

\* get_monthly_sales_summary taking, for each month, the mean of the last chunk
\* that has the month ('avg_discount': 'last') instead of the mean of the means
get_monthly_sales_summary_last_mean(agg) ==
    IF agg.monthly_sales = <<>> THEN <<>>
    ELSE
      LET combined == Concat(agg.monthly_sales)
          months   == sorted_ints({combined[i].year_month : i \in DOMAIN combined})
          rows(m)  == SubSeqAt(combined, {i \in DOMAIN combined : combined[i].year_month = m})
          final_monthly ==
              [g \in DOMAIN months |->
                  LET grp == rows(months[g])
                  IN  [year_month     |-> period_str(months[g]),
                       total_revenue  |-> SumSeq([i \in DOMAIN grp |-> grp[i].total_revenue]),
                       total_quantity |-> SumSeq([i \in DOMAIN grp |-> grp[i].total_quantity]),
                       avg_discount   |-> round2(grp[Len(grp)].avg_discount)]]
          keys == sorted_strs({final_monthly[i].year_month : i \in DOMAIN final_monthly})
      IN  [p \in DOMAIN keys |->
              final_monthly[CHOOSE i \in DOMAIN final_monthly :
                                final_monthly[i].year_month = keys[p]]]

\* DataAggregator.get_monthly_sales_summary: money in cents, avg_discount in
\* hundredths of a percent, rows ascending by the month string
get_monthly_sales_summary(agg) ==
    IF agg.monthly_sales = <<>> THEN <<>>
    ELSE
      LET combined == Concat(agg.monthly_sales)
          months   == sorted_ints({combined[i].year_month : i \in DOMAIN combined})
          rows(m)  == SubSeqAt(combined, {i \in DOMAIN combined : combined[i].year_month = m})
          final_monthly ==
              [g \in DOMAIN months |->
                  LET grp == rows(months[g])
                  IN  [year_month     |-> period_str(months[g]),
                       total_revenue  |-> SumSeq([i \in DOMAIN grp |-> grp[i].total_revenue]),
                       total_quantity |-> SumSeq([i \in DOMAIN grp |-> grp[i].total_quantity]),
                       avg_discount   |-> round2(rat_mean(
                                              [i \in DOMAIN grp |-> grp[i].avg_discount]))]]
          keys == sorted_strs({final_monthly[i].year_month : i \in DOMAIN final_monthly})
      IN  [p \in DOMAIN keys |->
              final_monthly[CHOOSE i \in DOMAIN final_monthly :
                                final_monthly[i].year_month = keys[p]]]

\* get_top_products with drop_duplicates(keep='last'): a product in both
\* rankings keeps its units-ranked row
get_top_products_keep_last(agg, top_n) ==
    IF agg.product_revenue = <<>> THEN <<>>
    ELSE
      LET products_df ==
              [i \in DOMAIN agg.product_revenue |->
                  [product_name     |-> agg.product_revenue[i].key,
                   total_revenue    |-> agg.product_revenue[i].value,
                   total_units_sold |-> dict_get(agg.product_units,
                                                 agg.product_revenue[i].key, 0)]]
          take(s) == SubSeq(s, 1, IF top_n < Len(s) THEN top_n ELSE Len(s))
          tag(s, by) == [i \in DOMAIN s |->
                            [product_name     |-> s[i].product_name,
                             total_revenue    |-> s[i].total_revenue,
                             total_units_sold |-> s[i].total_units_sold,
                             rank_by          |-> by]]
          top_by_revenue == tag(take(sort_desc(products_df,
                                [i \in DOMAIN products_df |-> products_df[i].total_revenue])),
                                "revenue")
          top_by_units   == tag(take(sort_desc(products_df,
                                [i \in DOMAIN products_df |-> products_df[i].total_units_sold])),
                                "units")
          both     == top_by_revenue \o top_by_units
          deduped  == SubSeqAt(both, {i \in DOMAIN both :
                          \A j \in (i + 1)..Len(both) :
                              both[j].product_name # both[i].product_name})
      IN  sort_desc(deduped, [i \in DOMAIN deduped |-> deduped[i].total_revenue])

\* DataAggregator.get_top_products
get_top_products(agg, top_n) ==
    IF agg.product_revenue = <<>> THEN <<>>
    ELSE
      LET products_df ==
              [i \in DOMAIN agg.product_revenue |->
                  [product_name     |-> agg.product_revenue[i].key,
                   total_revenue    |-> agg.product_revenue[i].value,
                   total_units_sold |-> dict_get(agg.product_units,
                                                 agg.product_revenue[i].key, 0)]]
          take(s) == SubSeq(s, 1, IF top_n < Len(s) THEN top_n ELSE Len(s))
          tag(s, by) == [i \in DOMAIN s |->
                            [product_name     |-> s[i].product_name,
                             total_revenue    |-> s[i].total_revenue,
                             total_units_sold |-> s[i].total_units_sold,
                             rank_by          |-> by]]
          top_by_revenue == tag(take(sort_desc(products_df,
                                [i \in DOMAIN products_df |-> products_df[i].total_revenue])),
                                "revenue")
          top_by_units   == tag(take(sort_desc(products_df,
                                [i \in DOMAIN products_df |-> products_df[i].total_units_sold])),
                                "units")
          both     == top_by_revenue \o top_by_units
          deduped  == SubSeqAt(both, {i \in DOMAIN both :
                          \A j \in 1..(i - 1) : both[j].product_name # both[i].product_name})
      IN  sort_desc(deduped, [i \in DOMAIN deduped |-> deduped[i].total_revenue])

\* get_anomaly_records without `if not self.all_records`: pd.concat of no
\* frames raises, shown here as a result that names the exception
get_anomaly_records_unguarded(agg, top_n) ==
    IF agg.all_records = <<>> THEN <<"ValueError: No objects to concatenate">>
    ELSE
      LET combined  == Concat(agg.all_records)
          anomalies == nlargest(top_n, combined, "revenue")
      IN  [i \in DOMAIN anomalies |->
              [anomalies[i] EXCEPT !.sale_date = strftime_ymd(@)]]

\* DataAggregator.get_anomaly_records
get_anomaly_records(agg, top_n) ==
    IF agg.all_records = <<>> THEN <<>>
    ELSE
      LET combined  == Concat(agg.all_records)
          anomalies == nlargest(top_n, combined, "revenue")
      IN  [i \in DOMAIN anomalies |->
              [anomalies[i] EXCEPT !.sale_date = strftime_ymd(@)]]

----------------------------------------------------------------------------
(* src/ingestion/csv_reader.py and src/pipeline.py *)

Min(a, b) == IF a < b THEN a ELSE b

\* One iteration of `for chunk in chunk_iterator`: the next chunk_size rows.
read_chunk(f, at, size) == SubSeq(f, at + 1, Min(at + size, Len(f)))

\* _generate_outputs asks for get_top_products(top_n=10) and
\* get_anomaly_records(top_n=5).  Both are scaled with CandidateCut, keeping
\* TOP_N_ANOMALIES <= CandidateCut as 5 <= 1000, so that the cuts are reached
\* by files of a few rows.
TOP_N_PRODUCTS == 2
TOP_N_ANOMALIES == 2

\* DataPipeline._generate_outputs: the three frames written as CSV
generate_outputs(agg) ==
    [monthly_sales |-> get_monthly_sales_summary(agg),
     top_products  |-> get_top_products(agg, TOP_N_PRODUCTS),
     anomalies     |-> get_anomaly_records(agg, TOP_N_ANOMALIES)]

\* _generate_quality_report that cuts the score to 2 decimals instead of rounding it
generate_quality_report_truncating(iss) ==
    LET total_processed == iss["total_rows_processed"]
        total_cleaned   == iss["total_rows_cleaned"]
    IN  [issues             |-> iss,
         rows_removed       |-> total_processed - total_cleaned,
         data_quality_score |-> IF total_processed > 0
                                THEN (total_cleaned * 10000) \div total_processed
                                ELSE 0]

\* DataPipeline._generate_quality_report: the tally plus rows_removed and
\* data_quality_score (in hundredths of a percent)
generate_quality_report(iss) ==
    LET total_processed == iss["total_rows_processed"]
        total_cleaned   == iss["total_rows_cleaned"]
    IN  [issues             |-> iss,
         rows_removed       |-> total_processed - total_cleaned,
         data_quality_score |-> IF total_processed > 0
                                THEN round_half_even(total_cleaned * 10000, total_processed)
                                ELSE 0]

\* One iteration of the loop in _process_chunks on the chunk that starts after
\* row `at`: clean it and, if anything is left, absorb it.
chunk_step(f, at, size, st) ==
    LET r == clean_chunk(read_chunk(f, at, size), st.issues)
    IN  [issues     |-> r.issues,
         aggregator |-> IF Len(r.df) > 0 THEN process_chunk(st.aggregator, r.df)
                                         ELSE st.aggregator]

\* DataPipeline._process_chunks as a function of the whole file: the tally and
\* the aggregator after every chunk from row `at` on has been cleaned and absorbed.
RECURSIVE process_chunks(_, _, _, _)
process_chunks(f, at, size, st) ==
    IF at >= Len(f) THEN st
    ELSE CHOOSE result \in {process_chunks(f, Min(at + size, Len(f)), size, nxt) :
                                nxt \in {chunk_step(f, at, size, st)}} : TRUE

\* a whole run of _process_chunks from a fresh cleaner and aggregator
run_chunks(f, size) ==
    process_chunks(f, 0, size, [issues |-> NewIssues, aggregator |-> NewAggregator])

----------------------------------------------------------------------------
(* Inputs *)

MaxRows == 2        \* longest input file of Spec
MaxRowsAgg == 4     \* longest input file of SpecAgg

Row(oid, prod, cat, q, p, d, reg, date, rev) ==
    [order_id |-> oid, product_name |-> prod, category |-> cat, quantity |-> q,
     unit_price |-> p, discount_percent |-> d, region |-> reg, sale_date |-> date,
     revenue |-> rev]

O1 == Str(<<"O", "1">>)
O2 == Str(<<"O", "2">>)
O3 == Str(<<"O", "3">>)
O4 == Str(<<"O", "4">>)
O5 == Str(<<"O", "5">>)
ProdA == Str(<<"A">>)
ProdB == Str(<<"B">>)
ProdC == Str(<<"C">>)
Electronics == Str(<<"E", "l", "e", "c", "t", "r", "o", "n", "i", "c", "s">>)
Electrnics  == Str(<<"e", "l", "e", "c", "t", "r", "n", "i", "c", "s">>)
Gadgets     == Str(<<"G", "a", "d", "g", "e", "t", "s">>)
NorthAmerica == Str(<<"N", "o", "r", "t", "h", " ", "A", "m", "e", "r", "i", "c", "a">>)
NDotAmerica  == Str(<<"n", ".", " ", "a", "m", "e", "r", "i", "c", "a">>)
Mars         == Str(<<"M", "a", "r", "s">>)
PaddedEU     == Str(<<" ", "E", "U", " ">>)
Q(cs) == Str(cs)
Jan15   == Str(<<"2", "0", "2", "4", "-", "0", "1", "-", "1", "5">>)   \* 2024-01-15
Feb20   == Str(<<"2", "0", "2", "4", "-", "0", "2", "-", "2", "0">>)   \* 2024-02-20
UsDate  == Str(<<"0", "3", "/", "0", "4", "/", "2", "0", "2", "4">>)   \* 03/04/2024
EuDate  == Str(<<"1", "3", "/", "0", "4", "/", "2", "0", "2", "4">>)   \* 13/04/2024
Feb30   == Str(<<"2", "0", "2", "4", "-", "0", "2", "-", "3", "0">>)   \* 2024-02-30
Soon    == Str(<<"s", "o", "o", "n">>)

\* Rows that exercise one cleaning rule each (and a few two at a time).
DirtyRecords ==
    { Row(O1, ProdA, Electronics, Q(<<"1", "0">>), Num(2000), Num(10), NorthAmerica, Jan15, NaN),
      Row(O2, ProdB, Electronics, Q(<<"3">>), Num(1500), Num(0), NorthAmerica, Feb20, Num(1)),
      Row(NaN, ProdA, Electronics, Q(<<"1", "0">>), Num(2000), Num(10), NorthAmerica, Jan15, NaN),
      Row(O2, ProdA, Electronics, Q(<<"a", "b", "c">>), Num(5000), Num(10), NorthAmerica, Jan15, NaN),
      Row(O2, ProdA, Electronics, Q(<<"1", "0", "0", "0", "1">>), Num(2000), Num(10), NorthAmerica, Jan15, NaN),
      Row(O2, ProdA, Electronics, Q(<<"-", "1">>), Num(2000), Num(10), NorthAmerica, Jan15, NaN),
      Row(O2, ProdA, Electronics, NaN, Num(2000), Num(10), NorthAmerica, Jan15, NaN),
      Row(O2, ProdA, Electronics, Q(<<"0">>), Num(2000), Num(10), NorthAmerica, Jan15, NaN),
      Row(O3, ProdA, Electronics, Q(<<"1", "0">>), NaN, Num(10), NorthAmerica, Jan15, NaN),
      Row(O3, ProdA, Electronics, Q(<<"1", "0">>), Num(0), Num(10), NorthAmerica, Jan15, NaN),
      Row(O3, ProdA, Electronics, Q(<<"1", "0">>), Num(10000001), Num(10), NorthAmerica, Jan15, NaN),
      Row(O4, ProdA, Electronics, Q(<<"1", "0">>), Num(2000), NaN, NorthAmerica, Jan15, NaN),
      Row(O4, ProdA, Electronics, Q(<<"1", "0">>), Num(2000), Num(0 - 5), NorthAmerica, Jan15, NaN),
      Row(O4, ProdA, Electronics, Q(<<"1", "0">>), Num(2000), Num(101), NorthAmerica, Jan15, NaN),
      Row(O4, ProdA, Electronics, Q(<<"a", "b", "c">>), Num(2000), Num(101), NorthAmerica, Jan15, NaN),
      Row(O5, ProdA, Electronics, Q(<<"1", "0">>), Num(2000), Num(10), NorthAmerica, UsDate, NaN),
      Row(O5, ProdA, Electronics, Q(<<"1", "0">>), Num(2000), Num(10), NorthAmerica, EuDate, NaN),
      Row(O5, ProdA, Electronics, Q(<<"1", "0">>), Num(2000), Num(10), NorthAmerica, Soon, NaN),
      Row(O5, ProdA, Electronics, Q(<<"1", "0">>), Num(2000), Num(10), NorthAmerica, Feb30, NaN),
      Row(O5, ProdA, Electronics, Q(<<"1", "0">>), Num(2000), Num(10), NorthAmerica, NaN, NaN),
      Row(O1, ProdB, Electrnics, Q(<<"1", "0">>), Num(2000), Num(10), NDotAmerica, Jan15, NaN),
      Row(O3, ProdB, Gadgets, Q(<<"1", "0">>), Num(2000), Num(10), Mars, Jan15, NaN),
      Row(O3, ProdB, NaN, Q(<<"1", "0">>), Num(2000), Num(10), PaddedEU, Jan15, NaN),
      Row(O4, ProdB, Gadgets, Q(<<"1", "0">>), Num(2000), Num(10), NaN, Soon, NaN) }

\* Rows that clean without loss and differ in what the aggregator reads, and
\* one row that cleaning drops.
AggRecords ==
    { Row(O1, ProdA, Electronics, Q(<<"1">>), Num(1000), Num(0), NorthAmerica, Jan15, NaN),
      Row(O2, ProdB, Electronics, Q(<<"2">>), Num(1000), Num(50), NorthAmerica, Jan15, NaN),
      Row(O3, ProdA, Electronics, Q(<<"3">>), Num(1000), Num(0), NorthAmerica, Feb20, NaN),
      Row(O4, ProdC, Electronics, Q(<<"1">>), Num(2000), Num(10), NorthAmerica, Jan15, NaN),
      Row(O5, ProdB, Electronics, Q(<<"a", "b", "c">>), Num(5000), Num(10), NorthAmerica, Jan15, NaN) }

\* Non-empty files of at most n rows (the reader's constructor rejects a file
\* without data rows).
Files(records, n) == UNION {[1..k -> records] : k \in 1..n}

----------------------------------------------------------------------------
(* DataPipeline.run() *)

NoOutputs == [monthly_sales |-> <<>>, top_products |-> <<>>, anomalies |-> <<>>,
              written |-> FALSE, quality |-> generate_quality_report(NewIssues),
              quality_written |-> FALSE]

InitWith(files, sizes) ==
    /\ file \in files
    /\ chunk_size \in sizes
    /\ pos = 0
    /\ pc = "read"
    /\ chunk = <<>>
    /\ cleaned_chunk = <<>>
    /\ issues = NewIssues
    /\ aggregator = NewAggregator
    /\ absorbed = <<>>
    /\ outputs = NoOutputs
    /\ raised = "none"

Init == InitWith(Files(DirtyRecords, MaxRows), 1..MaxRows)

InitAgg == InitWith(Files(AggRecords, MaxRowsAgg), 1..MaxRowsAgg)

\* `for chunk in self.reader.read_chunks()`: the next chunk is pulled
ReadChunk ==
    /\ pc = "read"
    /\ pos < Len(file)
    /\ chunk' = read_chunk(file, pos, chunk_size)
    /\ pos' = pos + Len(chunk')
    /\ pc' = "clean"
    /\ UNCHANGED <<raised, file, chunk_size, cleaned_chunk, issues, aggregator, absorbed, outputs>>

\* cleaned_chunk = self.cleaner.clean_chunk(chunk)
CleanChunk ==
    /\ pc = "clean"
    /\ LET r == clean_chunk(chunk, issues)
       IN  /\ cleaned_chunk' = r.df
           /\ issues' = r.issues
    /\ pc' = "absorb"
    /\ UNCHANGED <<raised, file, chunk_size, pos, chunk, aggregator, absorbed, outputs>>

\* the loop body without `if len(cleaned_chunk) > 0`: every cleaned chunk is absorbed
ProcessChunk_unguarded ==
    /\ pc = "absorb"
    /\ aggregator' = process_chunk(aggregator, cleaned_chunk)
    /\ absorbed' = Append(absorbed, cleaned_chunk)
    /\ pc' = "read"
    /\ UNCHANGED <<raised, file, chunk_size, pos, chunk, cleaned_chunk, issues, outputs>>

\* if len(cleaned_chunk) > 0: self.aggregator.process_chunk(cleaned_chunk)
ProcessChunk ==
    /\ pc = "absorb"
    /\ Len(cleaned_chunk) > 0
    /\ aggregator' = process_chunk(aggregator, cleaned_chunk)
    /\ absorbed' = Append(absorbed, cleaned_chunk)
    /\ pc' = "read"
    /\ UNCHANGED <<raised, file, chunk_size, pos, chunk, cleaned_chunk, issues, outputs>>

\* an empty cleaned chunk is not handed to the aggregator
SkipChunk ==
    /\ pc = "absorb"
    /\ Len(cleaned_chunk) = 0
    /\ pc' = "read"
    /\ UNCHANGED <<raised, file, chunk_size, pos, chunk, cleaned_chunk, issues, aggregator,
                   absorbed, outputs>>

\* _generate_outputs reached while the iterator still has chunks (the call
\* indented into the loop of _process_chunks)
GenerateOutputs_in_loop ==
    /\ pc = "read"
    /\ outputs' = [outputs EXCEPT
                      !.monthly_sales = generate_outputs(aggregator).monthly_sales,
                      !.top_products  = generate_outputs(aggregator).top_products,
                      !.anomalies     = generate_outputs(aggregator).anomalies,
                      !.written       = TRUE]
    /\ pc' = "quality"
    /\ UNCHANGED <<raised, file, chunk_size, pos, chunk, cleaned_chunk, issues, aggregator, absorbed>>

\* the iterator is exhausted; _generate_outputs runs
GenerateOutputs ==
    /\ pc = "read"
    /\ pos >= Len(file)
    /\ outputs' = [outputs EXCEPT
                      !.monthly_sales = generate_outputs(aggregator).monthly_sales,
                      !.top_products  = generate_outputs(aggregator).top_products,
                      !.anomalies     = generate_outputs(aggregator).anomalies,
                      !.written       = TRUE]
    /\ pc' = "quality"
    /\ UNCHANGED <<raised, file, chunk_size, pos, chunk, cleaned_chunk, issues, aggregator, absorbed>>

\* run() with the quality report in a `finally` block: it is written after a failure too
GenerateQualityReport_finally ==
    /\ pc \in {"quality", "raised"}
    /\ ~outputs.quality_written
    /\ outputs' = [outputs EXCEPT !.quality = generate_quality_report(issues),
                                  !.quality_written = TRUE]
    /\ pc' = IF pc = "quality" THEN "done" ELSE pc
    /\ UNCHANGED <<raised, file, chunk_size, pos, chunk, cleaned_chunk, issues, aggregator, absorbed>>

\* _generate_quality_report runs and run() returns
GenerateQualityReport ==
    /\ pc = "quality"
    /\ outputs' = [outputs EXCEPT !.quality = generate_quality_report(issues),
                                  !.quality_written = TRUE]
    /\ pc' = "done"
    /\ UNCHANGED <<raised, file, chunk_size, pos, chunk, cleaned_chunk, issues, aggregator, absorbed>>

Next ==
    \/ ReadChunk
    \/ CleanChunk
    \/ ProcessChunk
    \/ SkipChunk
    \/ GenerateOutputs
    \/ GenerateQualityReport

Spec == Init /\ [][Next]_vars

SpecAgg == InitAgg /\ [][Next]_vars

\* A second clean_chunk call on the frame the first one returned (the
\* idempotence check of the cleaner); the run ends there.
Reclean ==
    /\ pc = "absorb"
    /\ LET r == clean_chunk(cleaned_chunk, issues)
       IN  /\ cleaned_chunk' = r.df
           /\ issues' = r.issues
    /\ pc' = "recleaned"
    /\ UNCHANGED <<raised, file, chunk_size, pos, chunk, aggregator, absorbed, outputs>>

NextIdem ==
    \/ Next
    \/ Reclean

SpecIdem == Init /\ [][NextIdem]_vars

----------------------------------------------------------------------------
(* Vocabulary of the properties *)

\* positions of the rows that within-batch deduplication keeps
FirstOccurrences(df) ==
    {i \in DOMAIN df : \A j \in 1..(i - 1) : df[j].order_id # df[i].order_id}

QuantityResolved(row) ==
    /\ to_numeric(row.quantity).t = "num"
    /\ to_numeric(row.quantity).n >= MIN_QUANTITY
    /\ to_numeric(row.quantity).n <= MAX_QUANTITY

PriceResolved(row) ==
    /\ row.unit_price.t = "num"
    /\ row.unit_price.n >= MIN_PRICE
    /\ row.unit_price.n <= MAX_PRICE

DateResolved(row) ==
    \E k \in DOMAIN DATE_FORMATS : to_datetime(row.sale_date, DATE_FORMATS[k]).t = "date"

\* all four critical fields of a raw row are resolved by the repair rules
Resolved(row) ==
    /\ notna(row.order_id)
    /\ QuantityResolved(row)
    /\ PriceResolved(row)
    /\ DateResolved(row)

DiscountValid(row) ==
    /\ row.discount_percent.t = "num"
    /\ row.discount_percent.n >= MIN_DISCOUNT
    /\ row.discount_percent.n <= MAX_DISCOUNT

\* the rows of a cleaned frame that carry the order_id of raw row r
RowsFor(df, r) == {j \in DOMAIN df : df[j].order_id = r.order_id}

\* clean_chunk has just returned: chunk is its argument, cleaned_chunk its result
JustCleaned == pc = "absorb"

----------------------------------------------------------------------------
(* C4: cleaned rows never exceed processed rows, every counter of the      *)
(* tally is non-negative, and no step of the run decreases a counter.      *)

TallyBounded ==
    /\ issues["total_rows_cleaned"] <= issues["total_rows_processed"]
    /\ \A k \in IssueTypes : issues[k] >= 0

C4_TallyBoundedMonotone ==
    /\ []TallyBounded
    /\ [][\A k \in IssueTypes : issues'[k] >= issues[k]]_vars

\* two chunks cleaned, rows both kept and dropped, several counters raised
C4_Witness ==
    /\ pc = "absorb"
    /\ pos = 2
    /\ chunk_size = 1
    /\ issues["total_rows_cleaned"] = 1
    /\ issues["total_rows_processed"] = 2
    /\ issues["invalid_quantity"] = 1
    /\ issues["missing_values"] = 1

----------------------------------------------------------------------------
(* C6: a row that survives within-batch deduplication is in the cleaned    *)
(* frame exactly when its order_id, quantity, unit_price and sale_date are *)
(* all resolved; nothing else is dropped.                                  *)

C6_DroppedIffUnresolved ==
    JustCleaned =>
        /\ \A i \in FirstOccurrences(chunk) :
              Resolved(chunk[i]) <=> RowsFor(cleaned_chunk, chunk[i]) # {}
        /\ Len(cleaned_chunk)
              = Cardinality({i \in FirstOccurrences(chunk) : Resolved(chunk[i])})

\* quantity "abc", unit_price 50, discount 10 is dropped beside a row that is kept
C6_Witness ==
    /\ JustCleaned
    /\ Len(chunk) = 2
    /\ chunk[1].order_id # chunk[2].order_id
    /\ \E i \in DOMAIN chunk :
          /\ chunk[i].quantity = Q(<<"a", "b", "c">>)
          /\ chunk[i].unit_price = Num(5000)
          /\ chunk[i].discount_percent = Num(10)
          /\ RowsFor(cleaned_chunk, chunk[i]) = {}
    /\ Len(cleaned_chunk) = 1

----------------------------------------------------------------------------
(* C7: a missing or out-of-range discount never drops a row: the row is    *)
(* kept when its critical fields are resolved, with discount_percent 0 and *)
(* revenue quantity * unit_price; every cleaned row has a discount within  *)
(* [MIN_DISCOUNT, MAX_DISCOUNT].                                           *)

C7_DiscountRepaired ==
    JustCleaned =>
        /\ \A j \in DOMAIN cleaned_chunk : DiscountValid(cleaned_chunk[j])
        /\ \A i \in FirstOccurrences(chunk) :
              (Resolved(chunk[i]) /\ ~DiscountValid(chunk[i])) =>
                  /\ RowsFor(cleaned_chunk, chunk[i]) # {}
                  /\ \A j \in RowsFor(cleaned_chunk, chunk[i]) :
                        /\ cleaned_chunk[j].discount_percent = Num(0)
                        /\ cleaned_chunk[j].revenue
                              = Num(cleaned_chunk[j].quantity.n * cleaned_chunk[j].unit_price.n)

\* a kept row whose discount was missing and one whose discount was 101
C7_Witness ==
    /\ JustCleaned
    /\ \E i \in DOMAIN chunk : chunk[i].discount_percent = NaN
                               /\ RowsFor(cleaned_chunk, chunk[i]) # {}
    /\ \E i \in DOMAIN chunk : chunk[i].discount_percent = Num(101)
                               /\ RowsFor(cleaned_chunk, chunk[i]) # {}

----------------------------------------------------------------------------
(* C8: when an order_id occurs more than once in a batch, the cleaned      *)
(* frame holds at most one row for it, that row is the cleaned first       *)
(* occurrence, and duplicate_orders grows by the number of later           *)
(* occurrences.                                                            *)

\* what clean_chunk makes of one raw row on its own
CleanedAlone(row) == clean_chunk(<<row>>, NewIssues).df

C8_KeepFirstOccurrence ==
    [][(pc = "clean" /\ pc' = "absorb") =>
          /\ issues'["duplicate_orders"]
                = issues["duplicate_orders"]
                    + Len(chunk) - Cardinality(FirstOccurrences(chunk))
          /\ \A i \in FirstOccurrences(chunk) :
                SubSeqAt(cleaned_chunk', RowsFor(cleaned_chunk', chunk[i]))
                    = CleanedAlone(chunk[i])
          /\ \A j \in DOMAIN cleaned_chunk' :
                \E i \in FirstOccurrences(chunk) :
                    chunk[i].order_id = cleaned_chunk'[j].order_id]_vars

\* one order_id twice in a batch with different contents: one row out, one duplicate counted
C8_Witness ==
    /\ JustCleaned
    /\ Len(chunk) = 2
    /\ chunk[1].order_id = chunk[2].order_id
    /\ CleanedAlone(chunk[1]) # CleanedAlone(chunk[2])
    /\ CleanedAlone(chunk[2]) # <<>>
    /\ cleaned_chunk = CleanedAlone(chunk[1])
    /\ Len(cleaned_chunk) = 1
    /\ issues["duplicate_orders"] = 1

----------------------------------------------------------------------------
(* C9 as claimed: over the whole run no two rows handed to the aggregator  *)
(* share an order_id, and every one has an order_id.                       *)

C9_UniqueAcrossRun ==
    LET fed == Concat(absorbed)
    IN  /\ \A i, j \in DOMAIN fed : i # j => fed[i].order_id # fed[j].order_id
        /\ \A i \in DOMAIN fed : notna(fed[i].order_id)

(* C9 amended: within each cleaned batch handed to the aggregator no two   *)
(* rows share an order_id, and every row handed over has an order_id (the  *)
(* same order_id may come again in a later batch).                         *)

C9_UniqueWithinBatch ==
    \A b \in DOMAIN absorbed :
        /\ \A i, j \in DOMAIN absorbed[b] :
              i # j => absorbed[b][i].order_id # absorbed[b][j].order_id
        /\ \A i \in DOMAIN absorbed[b] : notna(absorbed[b][i].order_id)

\* a batch that held a duplicate was absorbed, and so was a second batch
\* that brings back an order_id of the first
C9_Witness ==
    /\ Len(absorbed) = 2
    /\ chunk_size = 2
    /\ Len(file) >= 3
    /\ file[1].order_id = file[2].order_id
    /\ Len(absorbed[1]) = 1
    /\ absorbed[2][1].order_id = absorbed[1][1].order_id

----------------------------------------------------------------------------
(* C10: region and category are lowercased, trimmed and looked up in the   *)
(* synonym table; a hit gives the canonical label, a miss leaves the value *)
(* as it was; no row is dropped on account of its region or category.      *)

Normalized(v, mapping) ==
    IF v.t = "str" /\ str_strip(str_lower(v.s)) \in DOMAIN mapping
    THEN Str(mapping[str_strip(str_lower(v.s))])
    ELSE v

C10_Normalization ==
    JustCleaned =>
        \A i \in FirstOccurrences(chunk) :
            Resolved(chunk[i]) =>
                /\ RowsFor(cleaned_chunk, chunk[i]) # {}
                /\ \A j \in RowsFor(cleaned_chunk, chunk[i]) :
                      /\ cleaned_chunk[j].region = Normalized(chunk[i].region, REGION_MAPPING)
                      /\ cleaned_chunk[j].category
                            = Normalized(chunk[i].category, CATEGORY_MAPPING)

\* "n. america" became "North America" and "Mars" stayed "Mars" in one batch
C10_Witness ==
    /\ JustCleaned
    /\ Len(chunk) = 2
    /\ Len(cleaned_chunk) = 2
    /\ chunk[1].region = NDotAmerica
    /\ cleaned_chunk[1].region = NorthAmerica
    /\ cleaned_chunk[1].category = Electronics
    /\ chunk[2].region = Mars
    /\ cleaned_chunk[2].region = Mars
    /\ cleaned_chunk[2].category = Gadgets

----------------------------------------------------------------------------
(* C5 as claimed: cleaning a cleaned frame again returns it unchanged and  *)
(* leaves every counter of the tally, the two row totals included, as it   *)
(* was.                                                                    *)

C5_NoCounterMoves ==
    [][pc' = "recleaned" => (cleaned_chunk' = cleaned_chunk /\ issues' = issues)]_vars

(* C5 amended: cleaning a cleaned frame again returns it unchanged and     *)
(* leaves every issue counter as it was; total_rows_processed and          *)
(* total_rows_cleaned each grow by the number of rows of the frame.        *)

RowTotals == {"total_rows_processed", "total_rows_cleaned"}

C5_Idempotent ==
    [][pc' = "recleaned" =>
          /\ cleaned_chunk' = cleaned_chunk
          /\ \A k \in IssueTypes \ RowTotals : issues'[k] = issues[k]
          /\ \A k \in RowTotals : issues'[k] = issues[k] + Len(cleaned_chunk)]_vars

\* a frame of two rows, one of them repaired by the first call, cleaned twice
C5_Witness ==
    /\ pc = "recleaned"
    /\ Len(cleaned_chunk) = 2
    /\ issues["normalized_regions"] = 1
    /\ issues["normalized_categories"] = 1
    /\ issues["total_rows_cleaned"] = 4

----------------------------------------------------------------------------
(* C2 as claimed: after any sequence of process_chunk calls the monthly    *)
(* summary has one row per month, ascending, whose total_revenue and       *)
(* total_quantity are the sums and whose avg_discount is the mean of       *)
(* discount_percent over all absorbed rows of that month.                  *)

\* the same aggregation done once over the whole data set
WholeMonthly(df) ==
    LET months  == sorted_ints({to_period_M(df[i].sale_date) : i \in DOMAIN df})
        rows(m) == SubSeqAt(df, {i \in DOMAIN df : to_period_M(df[i].sale_date) = m})
    IN  [g \in DOMAIN months |->
            LET grp == rows(months[g])
            IN  [year_month     |-> period_str(months[g]),
                 total_revenue  |-> SumSeq([i \in DOMAIN grp |-> grp[i].revenue.n]),
                 total_quantity |-> SumSeq([i \in DOMAIN grp |-> grp[i].quantity.n]),
                 avg_discount   |-> round_half_even(
                                        100 * SumSeq([i \in DOMAIN grp |->
                                                         grp[i].discount_percent.n]),
                                        Len(grp))]]

C2_MonthlyIsWholeDataset ==
    get_monthly_sales_summary(aggregator) = WholeMonthly(Concat(absorbed))

----------------------------------------------------------------------------
(* C1 as claimed: a file read under any two chunk sizes gives the same     *)
(* monthly summary and the same top-products report.                       *)

C1_RechunkInvariance ==
    pc = "done" =>
        \A size \in 1..MaxRowsAgg :
            LET other == run_chunks(file, size).aggregator
            IN  /\ get_monthly_sales_summary(other) = outputs.monthly_sales
                /\ get_top_products(other, TOP_N_PRODUCTS) = outputs.top_products

----------------------------------------------------------------------------
(* C3: for every n up to the per-chunk cut, get_anomaly_records(n) is the  *)
(* top n by revenue of all absorbed rows together (dates as ISO strings),  *)
(* whatever the per-chunk cut removed.                                     *)

GlobalTop(n) ==
    LET top == nlargest(n, Concat(absorbed), "revenue")
    IN  [i \in DOMAIN top |-> [top[i] EXCEPT !.sale_date = strftime_ymd(@)]]

C3_AnomaliesAreGlobalTop ==
    \A n \in 1..CandidateCut : get_anomaly_records(aggregator, n) = GlobalTop(n)

\* a chunk longer than the cut was absorbed, then another chunk whose row
\* belongs to the global top
C3_Witness ==
    /\ Len(absorbed) = 2
    /\ Len(absorbed[1]) > CandidateCut
    /\ Len(aggregator.all_records[1]) = CandidateCut
    /\ \E i \in DOMAIN GlobalTop(CandidateCut) :
          GlobalTop(CandidateCut)[i].order_id = absorbed[2][1].order_id
    /\ pc = "read"

----------------------------------------------------------------------------
(* C11: every row of a cleaned batch has revenue = quantity * unit_price * *)
(* (1 - discount_percent / 100) rounded to the cent, from the cleaned      *)
(* quantity, price and discount; a revenue given in the input plays no     *)
(* part (quantity 10, price 20.00, discount 10 gives 180.00).              *)

\* v (in cents) is x / 100 rounded to the nearest integer
NearestCent(v, x) == 2 * (100 * v - x) <= 100 /\ 2 * (x - 100 * v) <= 100

C11_RevenueRecomputed ==
    JustCleaned =>
        \A j \in DOMAIN cleaned_chunk :
            LET row == cleaned_chunk[j]
            IN  /\ row.revenue.t = "num"
                /\ NearestCent(row.revenue.n,
                               row.quantity.n * row.unit_price.n
                                   * (100 - row.discount_percent.n))
                /\ (row.quantity.n = 10 /\ row.unit_price.n = 2000
                        /\ row.discount_percent.n = 10) => row.revenue.n = 18000

\* a row that came with revenue 0.01 is kept with 3 * 15.00, next to the 180.00 row
C11_Witness ==
    /\ JustCleaned
    /\ Len(chunk) = 2 /\ Len(cleaned_chunk) = 2
    /\ chunk[1].revenue = Num(1)
    /\ cleaned_chunk[1].revenue = Num(4500)
    /\ chunk[2].revenue = NaN
    /\ cleaned_chunk[2].revenue = Num(18000)

----------------------------------------------------------------------------
(* The loop of _process_chunks fed by a source that may also yield a frame *)
(* without rows (ChunkedCSVReader itself yields only non-empty chunks).    *)

\* `for chunk in self.reader.read_chunks()` receives an empty frame
ReadEmptyChunk ==
    /\ pc = "read"
    /\ chunk' = <<>>
    /\ pc' = "clean"
    /\ UNCHANGED <<raised, file, chunk_size, pos, cleaned_chunk, issues, aggregator, absorbed, outputs>>

NextBatches ==
    \/ Next
    \/ ReadEmptyChunk

SpecBatches == Init /\ [][NextBatches]_vars

----------------------------------------------------------------------------
(* C12: process_chunk is called on a cleaned batch exactly when that batch *)
(* has rows; an empty input batch, wherever it comes in the sequence,      *)
(* leaves the aggregator and every counter of the tally as they were, and  *)
(* the loop goes on to the next batch.                                     *)

C12_AbsorbIffNonEmpty ==
    [][/\ (pc = "absorb" /\ pc' = "read") =>
              IF Len(cleaned_chunk) > 0
              THEN /\ aggregator' = process_chunk(aggregator, cleaned_chunk)
                   /\ absorbed' = Append(absorbed, cleaned_chunk)
              ELSE /\ aggregator' = aggregator
                   /\ absorbed' = absorbed
       /\ ~(pc = "absorb" /\ pc' = "read") =>
              (aggregator' = aggregator /\ absorbed' = absorbed)
       /\ (pc = "clean" /\ chunk = <<>>) =>
              /\ cleaned_chunk' = <<>>
              /\ issues' = issues
              /\ pc' = "absorb"
       /\ (pc = "absorb" /\ chunk = <<>>) =>
              /\ issues' = issues
              /\ aggregator' = aggregator
              /\ pc' = "read"]_vars

\* a batch was absorbed, then an empty batch went through the loop, and the
\* second row of the file is still to come
C12_Witness ==
    /\ pc = "read"
    /\ chunk = <<>>
    /\ pos = 1
    /\ Len(file) = 2
    /\ Len(absorbed) = 1
    /\ issues["total_rows_processed"] = 1
    /\ issues["total_rows_cleaned"] = 1

----------------------------------------------------------------------------
(* C13: as long as process_chunk has never been called, each of            *)
(* get_monthly_sales_summary, get_top_products and get_anomaly_records     *)
(* returns an empty result, and a run in which every cleaned batch was     *)
(* empty still ends with the three reports and the quality report written. *)

C13_EmptyFinalize ==
    absorbed = <<>> =>
        /\ get_monthly_sales_summary(aggregator) = <<>>
        /\ \A n \in 1..TOP_N_PRODUCTS : get_top_products(aggregator, n) = <<>>
        /\ \A n \in 1..TOP_N_ANOMALIES : get_anomaly_records(aggregator, n) = <<>>
        /\ (pc = "read" /\ pos >= Len(file)) => ENABLED GenerateOutputs
        /\ pc = "quality" =>
              /\ outputs.written
              /\ outputs.monthly_sales = <<>>
              /\ outputs.top_products = <<>>
              /\ outputs.anomalies = <<>>
              /\ ENABLED GenerateQualityReport
        /\ pc = "done" => (outputs.written /\ outputs.quality_written)

\* two batches were cleaned to nothing and the run still finished
C13_Witness ==
    /\ pc = "done"
    /\ absorbed = <<>>
    /\ Len(file) = 2 /\ chunk_size = 1
    /\ outputs.written /\ outputs.quality_written
    /\ outputs.monthly_sales = <<>> /\ outputs.top_products = <<>> /\ outputs.anomalies = <<>>
    /\ outputs.quality.rows_removed = 2

----------------------------------------------------------------------------
(* _generate_quality_report as a function of the tally: the cleaner has    *)
(* seen up to MaxTally rows (none at all for a cleaner that was never      *)
(* called) and kept some of them, and the report is generated.             *)

MaxTally == 9

InitQuality ==
    /\ file \in Files(AggRecords, 1)
    /\ chunk_size = 1
    /\ pos = Len(file)
    /\ pc = "quality"
    /\ chunk = <<>>
    /\ cleaned_chunk = <<>>
    /\ \E processed \in 0..MaxTally : \E cleaned \in 0..processed :
          issues = [NewIssues EXCEPT !["total_rows_processed"] = processed,
                                     !["total_rows_cleaned"] = cleaned,
                                     !["missing_values"] = processed - cleaned]
    /\ aggregator = NewAggregator
    /\ absorbed = <<>>
    /\ outputs = NoOutputs
    /\ raised = "none"

NextQuality == GenerateQualityReport

SpecQuality == InitQuality /\ [][NextQuality]_vars

----------------------------------------------------------------------------
(* C14 as claimed: the quality report has rows_removed = processed -       *)
(* cleaned and a score equal to cleaned / processed * 100, which is 0 when *)
(* nothing was processed and lies in [0, 100] otherwise.                   *)

C14_ScoreIsExactRatio ==
    outputs.quality_written =>
        LET q         == outputs.quality
            processed == issues["total_rows_processed"]
            cleaned   == issues["total_rows_cleaned"]
        IN  /\ q.rows_removed = processed - cleaned
            /\ processed = 0 => q.data_quality_score = 0
            /\ processed > 0 => q.data_quality_score * processed = cleaned * 10000
            /\ q.data_quality_score >= 0 /\ q.data_quality_score <= 10000

(* C14 amended: the score is cleaned / processed * 100 rounded to 2        *)
(* decimals (0 when nothing was processed), within [0, 100];               *)
(* rows_removed = processed - cleaned.                                     *)

C14_ScoreIsRoundedRatio ==
    outputs.quality_written =>
        LET q         == outputs.quality
            processed == issues["total_rows_processed"]
            cleaned   == issues["total_rows_cleaned"]
            err       == q.data_quality_score * processed - cleaned * 10000
        IN  /\ q.rows_removed = processed - cleaned
            /\ processed = 0 => q.data_quality_score = 0
            /\ processed > 0 => (2 * err <= processed /\ 2 * (0 - err) <= processed)
            /\ q.data_quality_score >= 0 /\ q.data_quality_score <= 10000

\* 2 rows kept of 3: the score is 66.67, one row removed
C14_Witness ==
    /\ outputs.quality_written
    /\ issues["total_rows_processed"] = 3
    /\ issues["total_rows_cleaned"] = 2
    /\ outputs.quality.data_quality_score = 6667
    /\ outputs.quality.rows_removed = 1

----------------------------------------------------------------------------
(* run() when a step of the loop raises.  The reader raises on a file it   *)
(* cannot parse any further, clean_chunk and process_chunk on a frame that *)
(* lacks a column they index; `except Exception: ... raise` in run() logs  *)
(* and re-raises, nothing in the loop catches.                             *)

Exceptions == {"ValueError", "KeyError"}

\* the chunk iterator raises while batch i is pulled (csv_reader.py:131-148 re-raise)
RaiseInReadChunks ==
    /\ pc = "read"
    /\ pos < Len(file)
    /\ raised' \in Exceptions
    /\ pc' = "raised"
    /\ UNCHANGED <<file, chunk_size, pos, chunk, cleaned_chunk, issues, aggregator,
                   absorbed, outputs>>

\* clean_chunk raises in its first rule, after the rows were counted as processed
RaiseInCleanChunk ==
    /\ pc = "clean"
    /\ issues' = add_issue(issues, "total_rows_processed", Len(chunk))
    /\ raised' \in Exceptions
    /\ pc' = "raised"
    /\ UNCHANGED <<file, chunk_size, pos, chunk, cleaned_chunk, aggregator, absorbed, outputs>>

\* process_chunk raises in its first statement, before any accumulator is touched
RaiseInProcessChunk ==
    /\ pc = "absorb"
    /\ Len(cleaned_chunk) > 0
    /\ raised' \in Exceptions
    /\ pc' = "raised"
    /\ UNCHANGED <<file, chunk_size, pos, chunk, cleaned_chunk, issues, aggregator,
                   absorbed, outputs>>

NextFail ==
    \/ Next
    \/ RaiseInReadChunks
    \/ RaiseInCleanChunk
    \/ RaiseInProcessChunk

SpecFail == Init /\ [][NextFail]_vars

----------------------------------------------------------------------------
(* C15: when the source, clean_chunk or process_chunk raises on batch i,   *)
(* run() ends there with that exception: no later batch is pulled, cleaned *)
(* or absorbed, no report is generated or written, and nothing is retried. *)

C15_AbortOnException ==
    /\ [](pc = "raised" =>
             /\ raised \in Exceptions
             /\ ~outputs.written
             /\ ~outputs.quality_written
             /\ outputs = NoOutputs)
    /\ [](raised # "none" => pc = "raised")
    /\ [][pc = "raised" => UNCHANGED vars]_vars
    /\ [][pc' = "raised" =>
             /\ pos' = pos /\ chunk' = chunk /\ cleaned_chunk' = cleaned_chunk
             /\ aggregator' = aggregator /\ absorbed' = absorbed]_vars

\* batch 1 was absorbed, batch 2 was pulled and clean_chunk raised on it
C15_Witness ==
    /\ pc = "raised"
    /\ raised = "KeyError"
    /\ chunk_size = 1 /\ Len(file) = 2 /\ pos = 2
    /\ Len(absorbed) = 1
    /\ issues["total_rows_processed"] = 2
    /\ issues["total_rows_cleaned"] = 1
    /\ ~outputs.written /\ ~outputs.quality_written

----------------------------------------------------------------------------
(* C16: batches are cleaned and absorbed in arrival order, batch i is      *)
(* cleaned and absorbed before batch i+1 is pulled, and the three reports  *)
(* and the quality report are generated only after the source is exhausted *)
(* and the last batch has been absorbed.                                   *)

\* how many batches the source has yielded, and the k-th of them
NumPulled == (pos + chunk_size - 1) \div chunk_size

Batch(k) == read_chunk(file, (k - 1) * chunk_size, chunk_size)

HasRows(df) == df # <<>>

\* what the aggregator must have been handed once batches 1..n are through
AbsorbedUpTo(n) ==
    SelectSeq([k \in 1..n |-> clean_chunk(Batch(k), NewIssues).df], HasRows)

C16_ArrivalOrder ==
    /\ [](IF pc \in {"clean", "absorb"}
          THEN /\ chunk = Batch(NumPulled)
               /\ absorbed = AbsorbedUpTo(NumPulled - 1)
          ELSE absorbed = AbsorbedUpTo(NumPulled))
    /\ []((outputs.written \/ outputs.quality_written) =>
             /\ pos >= Len(file)
             /\ pc \in {"quality", "done"}
             /\ absorbed = AbsorbedUpTo(NumPulled))
    /\ [](outputs.quality_written => outputs.written)
    /\ [][pos' # pos => (pc = "read" /\ chunk' = Batch(NumPulled + 1))]_vars
    /\ [][outputs' # outputs => pos >= Len(file)]_vars

\* four batches of one row, the second cleaned to nothing, all through and reported
C16_Witness ==
    /\ pc = "done"
    /\ chunk_size = 1
    /\ Len(file) = 4
    /\ clean_chunk(Batch(2), NewIssues).df = <<>>
    /\ Len(absorbed) = 3
    /\ absorbed[2] = clean_chunk(Batch(3), NewIssues).df
    /\ absorbed[2] # absorbed[1] /\ absorbed[3] # absorbed[2]
    /\ outputs.written /\ outputs.quality_written

----------------------------------------------------------------------------
(* C17 as claimed: once at least n distinct products have been absorbed,   *)
(* get_top_products(n) has exactly n rows (so has the top-products report  *)
(* for its n), and once at least n rows have been absorbed                 *)
(* get_anomaly_records(n) has exactly n rows.                              *)

ProductsAbsorbed ==
    LET fed == Concat(absorbed)
    IN  {fed[i].product_name : i \in DOMAIN fed}

C17_ExactlyTopNRows ==
    /\ \A n \in 1..TOP_N_PRODUCTS :
          Cardinality(ProductsAbsorbed) >= n => Len(get_top_products(aggregator, n)) = n
    /\ (outputs.written /\ Cardinality(ProductsAbsorbed) >= TOP_N_PRODUCTS) =>
          Len(outputs.top_products) = TOP_N_PRODUCTS
    /\ \A n \in 1..TOP_N_ANOMALIES :
          Len(Concat(absorbed)) >= n => Len(get_anomaly_records(aggregator, n)) = n

----------------------------------------------------------------------------
(* C18: get_top_products(n) is the union of the n products with the        *)
(* highest cumulative revenue and the n with the highest cumulative units, *)
(* each product once, tagged 'revenue' when it is in the revenue top n and *)
(* 'units' otherwise, sorted by total_revenue descending.  The two         *)
(* formulas differ in how equal values are ranked.                         *)

\* names of the products absorbed, and their totals over every absorbed row
ProductNames == {p.s : p \in ProductsAbsorbed}

RowsOfProduct(p) ==
    LET fed == Concat(absorbed)
    IN  SubSeqAt(fed, {i \in DOMAIN fed : fed[i].product_name.s = p})

CumRevenue(p) == SumSeq([i \in DOMAIN RowsOfProduct(p) |-> RowsOfProduct(p)[i].revenue.n])

CumUnits(p) == SumSeq([i \in DOMAIN RowsOfProduct(p) |-> RowsOfProduct(p)[i].quantity.n])

\* q was seen before p: its first row comes earlier in the stream of absorbed rows
SeenBefore(q, p) ==
    LET fed      == Concat(absorbed)
        first(x) == CHOOSE i \in DOMAIN fed :
                        /\ fed[i].product_name.s = x
                        /\ \A j \in 1..(i - 1) : fed[j].product_name.s # x
    IN  first(q) < first(p)

\* q entered the product map before p: in an earlier batch, or in the same
\* batch with the smaller name
EnteredBefore(q, p) ==
    LET batch(x) == CHOOSE b \in DOMAIN absorbed :
                        /\ \E i \in DOMAIN absorbed[b] : absorbed[b][i].product_name.s = x
                        /\ \A c \in 1..(b - 1) :
                              \A i \in DOMAIN absorbed[c] : absorbed[c][i].product_name.s # x
    IN  \/ batch(q) < batch(p)
        \/ batch(q) = batch(p) /\ lex_less(q, p)

\* the n best products by val, equal values ranked by before
TopSet(val(_), before(_, _), n) ==
    {p \in ProductNames :
        Cardinality({q \in ProductNames :
                        \/ val(q) > val(p)
                        \/ val(q) = val(p) /\ before(q, p)}) < n}

TopProductsAre(r, before(_, _), n) ==
    LET revenue    == [p \in ProductNames |-> CumRevenue(p)]
        units      == [p \in ProductNames |-> CumUnits(p)]
        by_revenue == TopSet(LAMBDA p : revenue[p], before, n)
        by_units   == TopSet(LAMBDA p : units[p], before, n)
    IN  /\ {r[i].product_name : i \in DOMAIN r} = by_revenue \cup by_units
        /\ \A i, j \in DOMAIN r : i # j => r[i].product_name # r[j].product_name
        /\ \A i \in DOMAIN r :
              /\ r[i].total_revenue = revenue[r[i].product_name]
              /\ r[i].total_units_sold = units[r[i].product_name]
              /\ r[i].rank_by = IF r[i].product_name \in by_revenue
                                THEN "revenue" ELSE "units"
        /\ \A i \in 1..(Len(r) - 1) : r[i].total_revenue >= r[i + 1].total_revenue

----------------------------------------------------------------------------
(* C19 as claimed: the monthly summary written by the pipeline has the     *)
(* columns month, total_revenue, total_quantity, avg_discount.             *)

C19_MonthColumn ==
    outputs.written =>
        \A i \in DOMAIN outputs.monthly_sales :
            DOMAIN outputs.monthly_sales[i]
                = {"month", "total_revenue", "total_quantity", "avg_discount"}

----------------------------------------------------------------------------
(* C20 as claimed: in the reports every monthly total_revenue is >= 0,     *)
(* every top-products total_revenue is > 0, and every anomaly record has a *)
(* revenue that is present and > 0, whatever the input.                    *)

----------------------------------------------------------------------------
(* C21: after any sequence of process_chunk calls product_revenue and      *)
(* product_units have the same keys, one for each product of the absorbed  *)
(* rows; product_revenue[p] is the sum of revenue and product_units[p] the *)
(* sum of quantity over every absorbed row of product p; no step removes a *)
(* key from either map.                                                    *)

Keys(dct) == {dct[i].key : i \in DOMAIN dct}

KeyOrder(dct) == [i \in DOMAIN dct |-> dct[i].key]

C21_ProductMapsAreSums ==
    /\ [](LET revenue == aggregator.product_revenue
              units   == aggregator.product_units
          IN  /\ Keys(revenue) = ProductNames
              /\ KeyOrder(units) = KeyOrder(revenue)
              /\ Cardinality(Keys(revenue)) = Len(revenue)
              /\ \A p \in ProductNames :
                    /\ dict_get(revenue, p, 0) = CumRevenue(p)
                    /\ dict_get(units, p, 0) = CumUnits(p))
    /\ [][/\ Keys(aggregator.product_revenue) \subseteq Keys(aggregator'.product_revenue)
          /\ Keys(aggregator.product_units) \subseteq Keys(aggregator'.product_units)]_vars

\* product A came in two batches and B in one: A's entries are the totals of
\* both batches (10.00 + 30.00, 1 + 3 units)
C21_Witness ==
    /\ Len(absorbed) = 2
    /\ \A b \in 1..2 : \E i \in DOMAIN absorbed[b] : absorbed[b][i].product_name = ProdA
    /\ Keys(aggregator.product_revenue) = {<<"A">>, <<"B">>}
    /\ dict_get(aggregator.product_revenue, <<"A">>, 0) = 4000
    /\ dict_get(aggregator.product_units, <<"A">>, 0) = 4
    /\ dict_get(aggregator.product_revenue, <<"B">>, 0) = 1000
    /\ dict_get(aggregator.product_units, <<"B">>, 0) = 2

----------------------------------------------------------------------------
(* C22: the formats of DATE_FORMATS are tried in their order and a value   *)
(* takes the date of the earliest format that parses it: 03/04/2024 is     *)
(* March 4th (month/day/year comes before day/month/year), no later format *)
(* replaces a date already parsed, and a value that no format parses stays *)
(* unresolved, is counted in invalid_date and its row is dropped.          *)

Parses(v, k) == to_datetime(v, DATE_FORMATS[k]).t = "date"

\* the date by the earliest format that parses v; NaN when none does
EarliestParse(v) ==
    IF \E k \in DOMAIN DATE_FORMATS : Parses(v, k)
    THEN to_datetime(v, DATE_FORMATS[CHOOSE k \in DOMAIN DATE_FORMATS :
                                        /\ Parses(v, k)
                                        /\ \A j \in 1..(k - 1) : ~Parses(v, j)])
    ELSE NaN

C22_EarliestFormatWins ==
    [][(pc = "clean" /\ pc' = "absorb") =>
          /\ \A i \in FirstOccurrences(chunk) :
                /\ \A j \in RowsFor(cleaned_chunk', chunk[i]) :
                      /\ cleaned_chunk'[j].sale_date.t = "date"
                      /\ cleaned_chunk'[j].sale_date = EarliestParse(chunk[i].sale_date)
                      /\ chunk[i].sale_date = UsDate =>
                            cleaned_chunk'[j].sale_date = Date(20240304)
                /\ isna(EarliestParse(chunk[i].sale_date)) =>
                      RowsFor(cleaned_chunk', chunk[i]) = {}
          /\ issues'["invalid_date"]
                = issues["invalid_date"]
                    + Cardinality({i \in FirstOccurrences(chunk) :
                                      isna(EarliestParse(chunk[i].sale_date))})]_vars

\* a batch with 03/04/2024, which two formats parse, and "soon", which none does:
\* the first row is kept as March 4th, the second is counted and dropped
C22_Witness ==
    /\ JustCleaned
    /\ Len(chunk) = 2
    /\ chunk[1].sale_date = UsDate
    /\ Parses(UsDate, 2) /\ Parses(UsDate, 3)
    /\ to_datetime(UsDate, DATE_FORMATS[3]) = Date(20240403)
    /\ chunk[2].sale_date = Soon
    /\ chunk[2].order_id # chunk[1].order_id
    /\ Len(cleaned_chunk) = 1
    /\ cleaned_chunk[1].order_id = chunk[1].order_id
    /\ cleaned_chunk[1].sale_date = Date(20240304)
    /\ issues["invalid_date"] = 1

----------------------------------------------------------------------------
(* Runs over rows chosen for the monthly discount: two January rows of     *)
(* discount 0, one of discount 10, a February row, and a row that cleaning *)
(* drops.                                                                  *)

MeanRecords ==
    { Row(O1, ProdA, Electronics, Q(<<"1">>), Num(1000), Num(0), NorthAmerica, Jan15, NaN),
      Row(O2, ProdB, Electronics, Q(<<"2">>), Num(1000), Num(0), NorthAmerica, Jan15, NaN),
      Row(O3, ProdA, Electronics, Q(<<"3">>), Num(1000), Num(10), NorthAmerica, Jan15, NaN),
      Row(O4, ProdC, Electronics, Q(<<"1">>), Num(2000), Num(10), NorthAmerica, Feb20, NaN),
      Row(O5, ProdB, Electronics, Q(<<"a", "b", "c">>), Num(5000), Num(10), NorthAmerica, Jan15, NaN) }

InitMeans == InitWith(Files(MeanRecords, MaxRowsAgg), 1..MaxRowsAgg)

SpecMeans == InitMeans /\ [][Next]_vars

\* the month of an absorbed row as the summary writes it
MonthOf(row) == period_str(to_period_M(row.sale_date))

\* absorbed batch b: how many rows it has of month m, and their discounts added up
MonthCount(b, m) == Cardinality({i \in DOMAIN absorbed[b] : MonthOf(absorbed[b][i]) = m})

MonthDiscount(b, m) ==
    LET rows == SubSeqAt(absorbed[b], {i \in DOMAIN absorbed[b] : MonthOf(absorbed[b][i]) = m})
    IN  SumSeq([i \in DOMAIN rows |-> rows[i].discount_percent.n])

BatchesOf(m) == {b \in DOMAIN absorbed : MonthCount(b, m) > 0}

RECURSIVE ProdSeq(_)
ProdSeq(s) == IF s = <<>> THEN 1 ELSE Head(s) * ProdSeq(Tail(s))

\* the mean over the batches of month m of each batch's mean discount, as a fraction
MeanOfMeans(m) ==
    LET n == [b \in DOMAIN absorbed |-> MonthCount(b, m)]
        P == ProdSeq([b \in DOMAIN absorbed |-> IF n[b] = 0 THEN 1 ELSE n[b]])
    IN  [num |-> SumSeq([b \in DOMAIN absorbed |->
                            IF n[b] = 0 THEN 0 ELSE MonthDiscount(b, m) * (P \div n[b])]),
         den |-> P * Cardinality(BatchesOf(m))]

\* the mean discount over every absorbed row of month m, as a fraction
RecordMean(m) ==
    [num |-> SumSeq([b \in DOMAIN absorbed |-> MonthDiscount(b, m)]),
     den |-> SumSeq([b \in DOMAIN absorbed |-> MonthCount(b, m)])]

SameCounts(m) == \A b, c \in BatchesOf(m) : MonthCount(b, m) = MonthCount(c, m)

\* a (hundredths of a percent) is the fraction r, exactly / to the nearest hundredth
IsExactly(a, r) == a * r.den = 100 * r.num

IsRounded(a, r) ==
    /\ 2 * (a * r.den - 100 * r.num) <= r.den
    /\ 2 * (100 * r.num - a * r.den) <= r.den

(* C23 as claimed: for each month that is in several absorbed batches      *)
(* avg_discount is the mean of the per-batch mean discounts, and it equals *)
(* the mean over all the month's records only when every batch has the     *)
(* same number of records of the month.                                    *)
C23_EqualOnlyWhenSameCounts ==
    LET r == get_monthly_sales_summary(aggregator)
    IN  \A i \in DOMAIN r :
            Cardinality(BatchesOf(r[i].year_month)) > 1 =>
                /\ IsExactly(r[i].avg_discount, MeanOfMeans(r[i].year_month))
                /\ IsExactly(r[i].avg_discount, RecordMean(r[i].year_month))
                      => SameCounts(r[i].year_month)

(* C23 amended: for each month of the summary avg_discount is the mean of  *)
(* the per-batch mean discounts rounded to 2 decimals; when every batch    *)
(* has the same number of records of the month this is the rounded mean    *)
(* over all the month's records (with unequal numbers it may or may not    *)
(* be).                                                                    *)
C23_MeanOfMeans ==
    LET r == get_monthly_sales_summary(aggregator)
    IN  /\ {r[i].year_month : i \in DOMAIN r}
              = UNION {{MonthOf(absorbed[b][i]) : i \in DOMAIN absorbed[b]} :
                          b \in DOMAIN absorbed}
        /\ \A i \in DOMAIN r :
              /\ IsRounded(r[i].avg_discount, MeanOfMeans(r[i].year_month))
              /\ SameCounts(r[i].year_month)
                    => IsRounded(r[i].avg_discount, RecordMean(r[i].year_month))

\* January in two batches, three rows of discounts 0, 0, 10 and then one of
\* 10: the summary has (3.33.. + 10) / 2 = 6.67, the records' mean is 5.00
C23_Witness ==
    /\ Len(absorbed) = 2
    /\ MonthCount(1, <<"2", "0", "2", "4", "-", "0", "1">>) = 3
    /\ MonthDiscount(1, <<"2", "0", "2", "4", "-", "0", "1">>) = 10
    /\ MonthCount(2, <<"2", "0", "2", "4", "-", "0", "1">>) = 1
    /\ MonthDiscount(2, <<"2", "0", "2", "4", "-", "0", "1">>) = 10
    /\ LET r == get_monthly_sales_summary(aggregator)
       IN  /\ Len(r) = 1
           /\ r[1].avg_discount = 667
           /\ ~IsRounded(r[1].avg_discount, RecordMean(r[1].year_month))

----------------------------------------------------------------------------
(* C24: after any sequence of clean_chunk calls total_rows_processed -     *)
(* total_rows_cleaned = duplicate_orders + missing_values.  Each call      *)
(* counts the later occurrences of an order_id in duplicate_orders and the *)
(* remaining rows with an unresolved critical field in missing_values, and *)
(* removes exactly those rows: an invalid discount or a normalised region  *)
(* or category removes nothing.                                            *)

----------------------------------------------------------------------------
(* C25: each process_chunk call appends to the candidate pool min(K, batch *)
(* size) records, the K (CandidateCut) highest-revenue records of the      *)
(* batch, and no step removes a pooled record; after b absorbed batches    *)
(* the pool holds at most K * b records, each a record of the batch it was *)
(* pooled from.                                                            *)

PoolSize(agg) == Len(Concat(agg.all_records))

\* top is n of the records of df, none of the others having a higher revenue
HighestOf(top, df, n) ==
    /\ Len(top) = n
    /\ Cardinality(Range(top)) = n
    /\ Range(top) \subseteq Range(df)
    /\ \A r \in Range(df) \ Range(top) : \A s \in Range(top) : r.revenue.n <= s.revenue.n

C25_CandidatePoolBound ==
    /\ [](/\ Len(aggregator.all_records) = Len(absorbed)
          /\ \A b \in DOMAIN absorbed :
                HighestOf(aggregator.all_records[b], absorbed[b],
                          Min(CandidateCut, Len(absorbed[b])))
          /\ PoolSize(aggregator) <= CandidateCut * Len(absorbed))
    /\ [][/\ Len(aggregator'.all_records) >= Len(aggregator.all_records)
          /\ SubSeq(aggregator'.all_records, 1, Len(aggregator.all_records))
                = aggregator.all_records
          /\ aggregator' # aggregator =>
                /\ Len(aggregator'.all_records) = Len(aggregator.all_records) + 1
                /\ PoolSize(aggregator')
                      = PoolSize(aggregator) + Min(CandidateCut, Len(cleaned_chunk))]_vars

\* a batch longer than the cut and a shorter one absorbed: CandidateCut
\* records pooled of the first, the single record of the second
C25_Witness ==
    /\ Len(absorbed) = 2
    /\ Len(absorbed[1]) = CandidateCut + 1
    /\ Len(absorbed[2]) = 1
    /\ Len(aggregator.all_records[1]) = CandidateCut
    /\ aggregator.all_records[2] = absorbed[2]
    /\ PoolSize(aggregator) = CandidateCut + 1
    /\ \E r \in Range(absorbed[1]) :
          /\ r \notin Range(aggregator.all_records[1])
          /\ \A s \in Range(aggregator.all_records[1]) : r.revenue.n < s.revenue.n

====
